---- MODULE Spec2Model ----
(***************************************************************************)
(* A model of tekstil-lead-finder: the template manager, the email sender, *)
(* the campaign manager and the search command's save loop.                *)
(*                                                                         *)
(* Text is modelled as a sequence of atoms (string pieces), so that        *)
(* substitution, joining and containment are computed, not assumed.        *)
(***************************************************************************)
EXTENDS Integers, Sequences, FiniteSets, Bags, TLC

VARIABLES
    today,        \* datetime.now().date(), as a day number
    senders,      \* the EmailSender instances: <<[daily_sent, last_reset]>>
    leads,        \* table leads: row id = index
    campaigns,    \* table email_campaigns: row id = index
    email_logs,   \* table email_logs, as a bag of rows
    outbox,       \* messages the mail server accepted: a bag of [day, to, by,
                  \* success], by the sending instance, success what it returned
    smtp,         \* [opened, open]: SMTP sessions opened so far / still open
    run,          \* the activation record of run_campaign
    last,         \* what the last send_email / send_template_email call did
    srch,         \* the activations of the search command's save loop
    db_writer,    \* the session holding the database's write lock (0: none)
    rin,          \* render_template: the call's arguments
    rout,         \* render_template: what the call returned or raised
    vld,          \* the activation of EmailValidator.validate
    rnk,          \* EmailFinder._prioritize_emails: its argument and result
    fetch,        \* the activation of BaseScraper.fetch_page
    cmd,          \* the activation of the send_campaign command
    stats,        \* get_campaign_stats: what the last call returned
    dscr,         \* the activation of a directory scraper's search
    walk,         \* the activation of find_email_from_website
    enr,          \* the activation of EmailEnricher.enrich_lead
    gsr           \* the activation of GoogleScraper.search

vars == <<today, senders, leads, campaigns, email_logs, outbox, smtp, run,
          last, srch, db_writer, rin, rout, vld, rnk, fetch, cmd, stats, dscr,
          walk, enr, gsr>>

outreachVars == <<today, senders, leads, campaigns, email_logs, outbox, smtp,
                  run, last>>
searchVars == <<srch, db_writer>>
renderVars == <<rin, rout>>
scrapeVars == <<stats, dscr, walk, enr, gsr>>
toolVars == <<vld, rnk, fetch, cmd, scrapeVars>>

None == "None"

(***************************************************************************)
(* Bounds of the model.                                                    *)
(***************************************************************************)
\* EMAIL_CONFIG["daily_send_limit"], scaled down from 50.
DailyLimit == 2
\* Day numbers run 0..MaxDay.
MaxDay == 1
\* CampaignManager instances, each with its own EmailSender.
MaxSenders == 2
\* Rows of email_campaigns created.
MaxCampaigns == 1
\* Lead ids handed to run_campaign, over all its calls.
MaxLeadIds == 4
\* Direct send_email / send_template_email calls.
MaxCalls == 3
\* Scraped records in one search batch.
MaxBatch == 2

(***************************************************************************)
(* Text helpers.                                                           *)
(***************************************************************************)
RECURSIVE Flatten(_)
Flatten(ss) == IF ss = <<>> THEN <<>> ELSE Head(ss) \o Flatten(Tail(ss))

\* sep.join(items), items being texts
RECURSIVE Join(_, _)
Join(sep, items) ==
    IF items = <<>> THEN <<>>
    ELSE IF Len(items) = 1 THEN Head(items)
    ELSE Head(items) \o sep \o Join(sep, Tail(items))

\* needle occurs in text as a contiguous run of atoms
Contains(text, needle) ==
    \E i \in 1..(Len(text) - Len(needle) + 1) :
        SubSeq(text, i, i + Len(needle) - 1) = needle

Str(s) == [t |-> "str", v |-> <<s>>]
List(items) == [t |-> "list", v |-> items]

\* {**a, **b}
Merge(a, b) ==
    [k \in (DOMAIN a) \cup (DOMAIN b) |-> IF k \in DOMAIN b THEN b[k] ELSE a[k]]

EmptyDict == [k \in {} |-> Str("")]

(***************************************************************************)
(* config/settings.py                                                      *)
(***************************************************************************)
COMPANY_INFO ==
    [name |-> Str("Your Textile Company"),
     monthly_capacity |-> Str("200,000 pieces"),
     specialization |->
        List(<<"T-shirts", "Polo shirts", "Hoodies", "Sportswear", "Casual wear">>),
     certifications |-> List(<<"ISO 9001", "OEKO-TEX", "GOTS">>),
     website |-> Str("www.yourcompany.com"),
     contact_email |-> Str("export@yourcompany.com"),
     phone |-> Str("+90 xxx xxx xx xx")]

(***************************************************************************)
(* outreach/email_templates.py: TEMPLATES.  A pattern is a sequence of     *)
(* tokens: a literal piece or a {placeholder}.  Literal prose without a    *)
(* placeholder in it is shortened; the placeholders and their order are    *)
(* those of the source.                                                    *)
(***************************************************************************)
L(s) == <<"lit", s>>
P(k) == <<"ph", k>>

InitialContactBody(greeting, intro, capacity, spec_head, cert_head, seek, closing) ==
    << L(greeting), P("contact_name"), L(",\n\n"),
       L(intro), P("our_company"), L(capacity), P("monthly_capacity"), L(".\n\n"),
       L(spec_head), L("\n"), P("specialization_list"), L("\n\n"),
       L(cert_head), P("certifications"), L("\n\n"),
       L(seek), P("their_company"), L("\n\n"),
       L(closing), L("\n"),
       P("sender_name"), L("\n"), P("sender_title"), L("\n"),
       P("our_company"), L("\n"), P("contact_info"), L("\n") >>

TEMPLATES ==
    [initial_contact_en |->
        [subject |-> << L("Textile Manufacturing Partnership - "), P("company_name") >>,
         body |-> InitialContactBody("Dear ", "I am reaching out from ",
                    ", monthly production capacity of ", "We specialize in:",
                    "Our certifications include: ",
                    "seeking new partnerships with companies like ",
                    "Best regards,")],
     initial_contact_de |->
        [subject |-> << L("Textilproduktion Partnerschaft - "), P("company_name") >>,
         body |-> InitialContactBody("Sehr geehrte(r) ", "Ich schreibe Ihnen im Namen von ",
                    ", Produktionskapazitaet von ", "Wir sind spezialisiert auf:",
                    "Unsere Zertifizierungen umfassen: ",
                    "Partnerschaften mit Unternehmen wie ",
                    "Mit freundlichen Gruessen,")],
     initial_contact_tr |->
        [subject |-> << L("Tekstil Uretim Is Birligi Teklifi - "), P("company_name") >>,
         body |->
            << L("Sayin "), P("contact_name"), L(",\n\n"),
               L("aylik "), P("monthly_capacity"), L(" uretim kapasitesine sahip "),
               P("our_company"), L(" adina\n\n"),
               L("Uzmanlik alanlarimiz:"), L("\n"), P("specialization_list"), L("\n\n"),
               L("Sertifikalarimiz: "), P("certifications"), L("\n\n"),
               P("their_company"), L(" gibi firmalarla\n\n"),
               L("Saygilarimla,"), L("\n"),
               P("sender_name"), L("\n"), P("sender_title"), L("\n"),
               P("our_company"), L("\n"), P("contact_info"), L("\n") >>],
     initial_contact_ar |->
        [subject |-> << L("(ar) Textile Partnership - "), P("company_name") >>,
         body |-> InitialContactBody("(ar) Dear ", "(ar) from ",
                    "(ar) capacity ", "(ar) We specialize in:",
                    "(ar) certifications: ", "(ar) companies like ",
                    "(ar) regards,")],
     follow_up_1 |->
        [subject |-> << L("Re: Textile Manufacturing Partnership - Following Up") >>,
         body |->
            << L("Dear "), P("contact_name"), L(",\n\n"),
               L("a great fit for "), P("their_company"), L("'s sourcing needs.\n\n"),
               L("- Monthly capacity: "), P("monthly_capacity"), L("\n"),
               L("- Quality certifications: "), P("certifications"), L("\n\n"),
               L("Best regards,"), L("\n"),
               P("sender_name"), L("\n"), P("our_company"), L("\n") >>],
     follow_up_2 |->
        [subject |-> << L("Final Follow-up: Textile Manufacturing Inquiry") >>,
         body |->
            << L("Dear "), P("contact_name"), L(",\n\n"),
               L("This is my final follow-up.\n\n"),
               L("Best regards,"), L("\n"),
               P("sender_name"), L("\n"), P("our_company"), L("\n"),
               P("contact_info"), L("\n") >>],
     catalog_offer |->
        [subject |-> << L("Product Catalog & Price List - "), P("our_company") >>,
         body |->
            << L("Dear "), P("contact_name"), L(",\n\n"),
               L("Thank you for your interest in "), P("our_company"), L(".\n\n"),
               L("- MOQ: "), P("moq"), L("\n"),
               L("- Lead time: "), P("lead_time"), L("\n"),
               L("- Payment terms: "), P("payment_terms"), L("\n"),
               L("- Shipping: "), P("shipping_info"), L("\n\n"),
               L("Best regards,"), L("\n"),
               P("sender_name"), L("\n"), P("our_company"), L("\n") >>]]

(***************************************************************************)
(* EmailTemplateManager                                                    *)
(***************************************************************************)
NoTemplate == [subject |-> <<>>, body |-> <<>>, found |-> FALSE]

\* self.templates.get(template_name, {})
get_template(template_name) ==
    IF template_name \in DOMAIN TEMPLATES
    THEN [subject |-> TEMPLATES[template_name].subject,
          body |-> TEMPLATES[template_name].body,
          found |-> TRUE]
    ELSE NoTemplate

\* str(x) as str.format writes a value
ValueText(val) ==
    IF val.t = "str" THEN val.v
    ELSE <<"[">> \o Join(<<", ">>, [i \in 1..Len(val.v) |-> <<"'", val.v[i], "'">>]) \o <<"]">>

\* The bullet prefix of a specialization line: U+2022 and a space.
Bullet == "<U+2022> "

\* "\n".join(f"<bullet> {item}" for item in items)
BulletList(items) ==
    Join(<<"\n">>, [i \in 1..Len(items) |-> <<Bullet, items[i]>>])

\* ", ".join(items)
CommaList(items) ==
    Join(<<", ">>, [i \in 1..Len(items) |-> <<items[i]>>])

\* all_vars with the specialization_list key added when specialization is a list
ExpandSpecialization(all_vars) ==
    IF "specialization" \in DOMAIN all_vars /\ all_vars["specialization"].t = "list"
    THEN Merge(all_vars,
               [k \in {"specialization_list"} |->
                    [t |-> "str", v |-> BulletList(all_vars["specialization"].v)]])
    ELSE all_vars

\* all_vars with certifications joined when it is a list
ExpandCertifications(all_vars) ==
    IF "certifications" \in DOMAIN all_vars /\ all_vars["certifications"].t = "list"
    THEN [all_vars EXCEPT !["certifications"] =
                [t |-> "str", v |-> CommaList(all_vars["certifications"].v)]]
    ELSE all_vars

\* the dictionary str.format is called with
AllVars(company_info, variables) ==
    ExpandCertifications(ExpandSpecialization(Merge(company_info, variables)))

\* A missing key written into the output instead of raising KeyError.
RECURSIVE FormatLenient(_, _)
FormatLenient(tokens, all_vars) ==
    IF tokens = <<>> THEN [ok |-> TRUE, text |-> <<>>, key |-> ""]
    ELSE LET t == Head(tokens)
             rest == FormatLenient(Tail(tokens), all_vars)
         IN  IF t[1] = "lit" THEN [rest EXCEPT !.text = <<t[2]>> \o @]
             ELSE IF t[2] \notin DOMAIN all_vars
                  THEN [rest EXCEPT !.text = <<"{", t[2], "}">> \o @]
                  ELSE [rest EXCEPT !.text = ValueText(all_vars[t[2]]) \o @]

\* pattern.format(**all_vars): the text, or the first key that is missing
RECURSIVE Format(_, _)
Format(tokens, all_vars) ==
    IF tokens = <<>> THEN [ok |-> TRUE, text |-> <<>>, key |-> ""]
    ELSE LET t == Head(tokens)
         IN  IF t[1] = "ph" /\ t[2] \notin DOMAIN all_vars
             THEN [ok |-> FALSE, text |-> <<>>, key |-> t[2]]
             ELSE LET rest == Format(Tail(tokens), all_vars)
                      piece == IF t[1] = "lit" THEN <<t[2]>>
                               ELSE ValueText(all_vars[t[2]])
                  IN  IF rest.ok THEN [rest EXCEPT !.text = piece \o @] ELSE rest

\* raise ValueError(f"{msg} {arg}"): nothing is returned
Raised(msg, arg) ==
    [raised |-> "ValueError", error |-> <<msg, arg>>,
     returned |-> FALSE, subject |-> <<>>, body |-> <<>>]

\* return {"subject": subject, "body": body}
Rendered(subject, body) ==
    [raised |-> None, error |-> <<>>,
     returned |-> TRUE, subject |-> subject, body |-> body]

\* EmailTemplateManager(company_info).render_template(template_name, variables)
render_template(company_info, template_name, variables) ==
    LET template == get_template(template_name)
        all_vars == AllVars(company_info, variables)
    IN  IF ~template.found
        THEN Raised("Template not found", template_name)
        ELSE LET subject == Format(template.subject, all_vars)
             IN  IF ~subject.ok
                 THEN Raised("Missing variable in template", subject.key)
                 ELSE LET body == Format(template.body, all_vars)
                      IN  IF ~body.ok
                          THEN Raised("Missing variable in template", body.key)
                          ELSE Rendered(subject.text, body.text)

(***************************************************************************)
(* The values each specification leaves alone.                             *)
(***************************************************************************)
NoCall == [called |-> FALSE, n |-> 0]

OutreachIdle ==
    /\ today = 0
    /\ senders = <<>>
    /\ leads = <<>>
    /\ campaigns = <<>>
    /\ email_logs = EmptyBag
    /\ outbox = EmptyBag
    /\ smtp = [opened |-> 0, open |-> 0]
    /\ run = [pc |-> "idle"]
    /\ last = NoCall

SearchIdle ==
    /\ srch = <<>>
    /\ db_writer = 0

RenderIdle ==
    /\ rin = NoCall
    /\ rout = NoCall

ScrapeIdle ==
    /\ stats = [pc |-> "idle"]
    /\ dscr = [pc |-> "idle"]
    /\ walk = [pc |-> "idle"]
    /\ enr = [pc |-> "idle"]
    /\ gsr = [pc |-> "idle"]

ToolsIdle ==
    /\ vld = [pc |-> "idle"]
    /\ rnk = NoCall
    /\ fetch = [pc |-> "idle"]
    /\ cmd = [pc |-> "idle"]
    /\ ScrapeIdle

(***************************************************************************)
(* render_template as a state machine: a call with arguments drawn from    *)
(* RenderInputs, then its return.                                          *)
(***************************************************************************)
KeyValues ==
    [contact_name |-> Str("John"),
     their_company |-> Str("Acme"),
     company_name |-> Str("Acme"),
     our_company |-> Str("Baran Tekstil"),
     sender_name |-> Str("Baran"),
     sender_title |-> Str("Export Manager"),
     contact_info |-> Str("export@barantekstil.example"),
     moq |-> Str("500"),
     lead_time |-> Str("30 days"),
     payment_terms |-> Str("T/T"),
     shipping_info |-> Str("FOB Istanbul")]

LeadKeys == {"contact_name", "their_company", "company_name"}
ProfileKeys == {"our_company", "sender_name", "sender_title", "contact_info"}
CatalogKeys == {"moq", "lead_time", "payment_terms", "shipping_info"}

Restrict(f, S) == [k \in S |-> f[k]]

SpecializationChoices ==
    {EmptyDict,
     [specialization |-> List(<<"T-shirts", "Hoodies">>)],
     [specialization |-> Str("knitwear")]}

CertificationChoices ==
    {EmptyDict,
     [certifications |-> List(<<"ISO 9001">>)],
     [certifications |-> Str("ISO 9001")]}

VariableChoices ==
    {Merge(Merge(Restrict(KeyValues, K \cup C), s), c) :
        K \in SUBSET (LeadKeys \cup ProfileKeys),
        C \in {{}, CatalogKeys},
        s \in SpecializationChoices,
        c \in CertificationChoices}

TemplateNames == (DOMAIN TEMPLATES) \cup {"no_such_template"}

RenderInputs ==
    [company_info : {COMPANY_INFO, EmptyDict},
     template_name : TemplateNames,
     variables : VariableChoices,
     called : {TRUE}]

InitRender ==
    /\ OutreachIdle
    /\ SearchIdle
    /\ ToolsIdle
    /\ rin \in RenderInputs
    /\ rout = NoCall

RenderCall ==
    /\ ~rout.called
    /\ rout' = [called |-> TRUE,
                res |-> render_template(rin.company_info, rin.template_name,
                                        rin.variables)]
    /\ UNCHANGED <<rin, outreachVars, searchVars, toolVars>>

NextRender == RenderCall

SpecRender == InitRender /\ [][NextRender]_vars

(***************************************************************************)
(* Claims about render_template.                                           *)
(***************************************************************************)
Placeholders(tokens) ==
    {tokens[i][2] : i \in {j \in 1..Len(tokens) : tokens[j][1] = "ph"}}

\* every token replaced by its text, written without Format
Substituted(tokens, all_vars) ==
    Flatten([i \in 1..Len(tokens) |->
                IF tokens[i][1] = "lit" THEN <<tokens[i][2]>>
                ELSE ValueText(all_vars[tokens[i][2]])])

\* C9: render_template returns the fully substituted subject and body, or
\* raises and returns nothing: "Template not found" for an unknown name,
\* "Missing variable" naming a missing key whenever a placeholder of the
\* subject or the body has no key in the merged variables.
C9_RenderAllOrNothing ==
    rout.called =>
        LET res == rout.res
            known == rin.template_name \in DOMAIN TEMPLATES
            all_vars == AllVars(rin.company_info, rin.variables)
            tpl == TEMPLATES[rin.template_name]
            missing == (Placeholders(tpl.subject) \cup Placeholders(tpl.body))
                            \ DOMAIN all_vars
        IN  /\ ~known =>
                /\ ~res.returned
                /\ res.raised = "ValueError"
                /\ res.error = <<"Template not found", rin.template_name>>
            /\ (known /\ missing # {}) =>
                /\ ~res.returned
                /\ res.raised = "ValueError"
                /\ res.error[1] = "Missing variable in template"
                /\ res.error[2] \in missing
            /\ (known /\ missing = {}) =>
                /\ res.returned
                /\ res.raised = None
                /\ res.subject = Substituted(tpl.subject, all_vars)
                /\ res.body = Substituted(tpl.body, all_vars)

\* C9 witnesses: a call that raised for a missing variable of the body after
\* the subject was formatted, and a call that returned.
C9_Witness ==
    /\ rout.called
    /\ rin.template_name = "initial_contact_en"
    /\ "company_name" \in DOMAIN rin.variables
    /\ ~rout.res.returned
    /\ rout.res.error[1] = "Missing variable in template"

\* The call of the end-to-end scenario.
ExampleVariables ==
    [contact_name |-> Str("John"),
     their_company |-> Str("Acme"),
     company_name |-> Str("Acme"),
     specialization |-> List(<<"T-shirts", "Hoodies">>),
     certifications |-> List(<<"ISO 9001">>)]

\* C10: render_template("initial_contact_en", ExampleVariables) returns a
\* body with the lines "<bullet> T-shirts" and "<bullet> Hoodies" and the
\* certifications written as "ISO 9001".
C10_ExampleRenders ==
    (rout.called /\ rin.template_name = "initial_contact_en"
                 /\ rin.variables = ExampleVariables) =>
        /\ rout.res.returned
        /\ Contains(rout.res.body, <<"\n", Bullet, "T-shirts", "\n">>)
        /\ Contains(rout.res.body, <<"\n", Bullet, "Hoodies", "\n">>)
        /\ Contains(rout.res.body, <<"Our certifications include: ", "ISO 9001", "\n\n">>)

(***************************************************************************)
(* outreach/email_sender.py: EmailSender.  A sender is the record          *)
(* [daily_sent, last_reset] of the instance, with two history fields the   *)
(* code does not have: h_day, the day of the instance's latest call, and   *)
(* h_ok, the calls on h_day that returned success.                         *)
(***************************************************************************)
\* EmailSender.__init__ on day `day`
NewSender(day) ==
    [daily_sent |-> 0, last_reset |-> day, h_day |-> day, h_ok |-> 0]

\* The counter is never reset.
check_daily_limit_no_reset(s, day) ==
    [sender |-> s, ok |-> s.daily_sent < DailyLimit]

\* The cap tested with <= instead of <.
check_daily_limit_off_by_one(s, day) ==
    LET r == IF day > s.last_reset
             THEN [s EXCEPT !.daily_sent = 0, !.last_reset = day]
             ELSE s
    IN  [sender |-> r, ok |-> r.daily_sent <= DailyLimit]

\* EmailSender._check_daily_limit: the sender after the reset, and the answer
check_daily_limit(s, day) ==
    LET r == IF day > s.last_reset
             THEN [s EXCEPT !.daily_sent = 0, !.last_reset = day]
             ELSE s
    IN  [sender |-> r, ok |-> r.daily_sent < DailyLimit]

\* What the mail server and the network do to one send:
\*   ok             the session opens, sendmail and quit return
\*   connect_fail   smtplib.SMTP(...) raises: no session
\*   login_fail     the session opens, starttls or login raises
\*   sendmail_fail  the session opens, sendmail raises
\*   quit_fail      sendmail returns, quit raises
SmtpOutcomes == {"ok", "connect_fail", "login_fail", "sendmail_fail", "quit_fail"}

\* the result dictionary of send_email
SendResult(success, to_email, error, sent_at) ==
    [success |-> success, to_email |-> to_email, error |-> error,
     sent_at |-> sent_at, keys |-> {"success", "to_email", "error", "sent_at"}]

\* EmailSender._log_email: the row it adds to email_logs (0: no id given)
LogRow(lead_id, campaign_id, to_email, status, error_message) ==
    [lead_id |-> lead_id, campaign_id |-> campaign_id, to_email |-> to_email,
     status |-> status, error_message |-> error_message]

\* what one call did besides returning: the sender after it, the rows it
\* logged, the sessions it opened and left open, the message handed over
Effect(sender, result, rows, opened, left_open, accepted) ==
    [sender |-> sender, result |-> result, rows |-> rows, opened |-> opened,
     left_open |-> left_open, accepted |-> accepted]

\* the history fields after a call on `day` that returned `success`
History(s, day, success) ==
    LET base == IF s.h_day = day THEN s.h_ok ELSE 0
    IN  [s EXCEPT !.h_day = day, !.h_ok = base + (IF success THEN 1 ELSE 0)]

\* Every attempt that reaches the mail server is counted.
after_smtp_counting_attempts(s, outcome) ==
    [s EXCEPT !.daily_sent = @ + 1]

\* send_email, lines 103-129: the sender after the try block;
\* self.daily_sent += 1 follows server.quit()
after_smtp(s, outcome) ==
    IF outcome = "ok" THEN [s EXCEPT !.daily_sent = @ + 1] ELSE s

\* EmailSender.send_email(to_email, subject, body, lead_id=, campaign_id=)
\* on sender s, the network answering with `outcome`, on day `day`
send_email(s, to_email, subject, lead_id, campaign_id, outcome, day) ==
    LET chk == check_daily_limit(s, day)
        \* an early return: nothing is logged
        refused(err) ==
            Effect(History(chk.sender, day, FALSE),
                   SendResult(FALSE, to_email, err, <<>>), <<>>, 0, 0, FALSE)
        \* the except branch: str(e) in the result and in a "failed" row
        failed(err, opened, left_open, accepted) ==
            Effect(History(after_smtp(chk.sender, outcome), day, FALSE),
                   SendResult(FALSE, to_email, err, <<>>),
                   <<LogRow(lead_id, campaign_id, to_email, "failed", err)>>,
                   opened, left_open, accepted)
    IN  IF ~chk.ok THEN refused("Daily send limit reached")
        ELSE IF to_email \in {"", None} \/ subject = <<>>
             THEN refused("Missing email or subject")
        ELSE IF outcome = "ok"
             THEN Effect(History(after_smtp(chk.sender, outcome), day, TRUE),
                         SendResult(TRUE, to_email, None, <<day>>),
                         <<LogRow(lead_id, campaign_id, to_email, "sent", None)>>,
                         1, 0, TRUE)
        ELSE IF outcome = "connect_fail" THEN failed("connect_fail", 0, 0, FALSE)
        ELSE IF outcome = "login_fail" THEN failed("login_fail", 1, 1, FALSE)
        ELSE IF outcome = "sendmail_fail" THEN failed("sendmail_fail", 1, 1, FALSE)
        ELSE failed("quit_fail", 1, 0, TRUE)

\* EmailSender.send_template_email(to_email, template_name, variables,
\* lead_id=, campaign_id=): the sender's template manager holds COMPANY_INFO
send_template_email(s, to_email, template_name, variables, lead_id, campaign_id, outcome, day) ==
    LET rendered == render_template(COMPANY_INFO, template_name, variables)
    IN  IF rendered.returned
        THEN send_email(s, to_email, rendered.subject, lead_id, campaign_id,
                        outcome, day)
        ELSE \* except ValueError: {"success": False, "error": str(e)}
             Effect(History(s, day, FALSE),
                    [success |-> FALSE, to_email |-> None, error |-> rendered.error[1],
                     sent_at |-> <<>>, keys |-> {"success", "error"}],
                    <<>>, 0, 0, FALSE)

(***************************************************************************)
(* The sender as a state machine: instances are constructed, send_email    *)
(* and send_template_email are called on them, and the date advances.      *)
(***************************************************************************)
\* the senders, tables and mail server after a call on sender i had effect e
ApplyEffect(i, e) ==
    /\ senders' = [senders EXCEPT ![i] = e.sender]
    /\ email_logs' = email_logs (+) SetToBag({e.rows[k] : k \in 1..Len(e.rows)})
    /\ outbox' = IF e.accepted
                 THEN outbox (+) SetToBag({[day |-> today, to |-> e.result.to_email,
                                            by |-> i, success |-> e.result.success]})
                 ELSE outbox
    /\ smtp' = [opened |-> smtp.opened + e.opened, open |-> smtp.open + e.left_open]

\* `last` after a direct call: what the call found, returned and did;
\* entered: the call reached send_email
Observe(i, e, op, entered) ==
    last' = [called |-> TRUE, n |-> last.n + 1, op |-> op, sender |-> i,
             day |-> today, before |-> senders[i], entered |-> entered,
             result |-> e.result, rows |-> e.rows, opened |-> e.opened,
             left_open |-> e.left_open, accepted |-> e.accepted]

\* (to_email, subject) pairs of direct send_email calls
DirectCalls ==
    {[to_email |-> "buyer@acme.com", subject |-> <<"Hello">>],
     [to_email |-> "", subject |-> <<"Hello">>],
     [to_email |-> "buyer@acme.com", subject |-> <<>>]}

\* (template, variables) pairs of direct send_template_email calls
TemplateCalls ==
    {[template_name |-> "initial_contact_en",
      variables |-> Restrict(KeyValues, LeadKeys)],
     [template_name |-> "initial_contact_en",
      variables |-> Restrict(KeyValues, LeadKeys \cup ProfileKeys)],
     [template_name |-> "no_such_template",
      variables |-> Restrict(KeyValues, LeadKeys \cup ProfileKeys)]}

\* one EmailSender(), constructed on day 0
InitSender ==
    /\ today = 0
    /\ senders = <<NewSender(0)>>
    /\ leads = <<>>
    /\ campaigns = <<>>
    /\ email_logs = EmptyBag
    /\ outbox = EmptyBag
    /\ smtp = [opened |-> 0, open |-> 0]
    /\ run = [pc |-> "idle"]
    /\ last = NoCall
    /\ SearchIdle
    /\ RenderIdle
    /\ ToolsIdle

\* sender.send_email(to_email, subject, body)
SendEmail ==
    \E i \in DOMAIN senders, c \in DirectCalls, outcome \in SmtpOutcomes :
        /\ last.n < MaxCalls
        /\ LET e == send_email(senders[i], c.to_email, c.subject, 0, 0, outcome, today)
           IN  ApplyEffect(i, e) /\ Observe(i, e, "send_email", TRUE)
        /\ UNCHANGED <<today, leads, campaigns, run, searchVars, renderVars, toolVars>>

\* sender.send_template_email(to_email, template_name, variables)
SendTemplateEmail ==
    \E i \in DOMAIN senders, c \in TemplateCalls, outcome \in SmtpOutcomes :
        /\ last.n < MaxCalls
        /\ LET e == send_template_email(senders[i], "buyer@acme.com", c.template_name,
                                        c.variables, 0, 0, outcome, today)
           IN  /\ ApplyEffect(i, e)
               /\ Observe(i, e, "send_template_email", "to_email" \in e.result.keys)
        /\ UNCHANGED <<today, leads, campaigns, run, searchVars, renderVars, toolVars>>

\* midnight passes
AdvanceDay ==
    /\ today < MaxDay
    /\ today' = today + 1
    /\ UNCHANGED <<senders, leads, campaigns, email_logs, outbox, smtp, run, last,
                   searchVars, renderVars, toolVars>>

NextSender == SendEmail \/ SendTemplateEmail \/ AdvanceDay

SpecSender == InitSender /\ [][NextSender]_vars

(***************************************************************************)
(* Claims about one EmailSender.                                           *)
(***************************************************************************)
DailyLimitError == "Daily send limit reached"

\* C1: on one EmailSender, once DailyLimit calls of a day have returned
\* success, a further send_email call on that day returns success = false
\* with the daily-limit error and opens no SMTP session; daily_sent never
\* exceeds DailyLimit, nor does the number of successful sends of one day.
C1_DailyCap ==
    /\ \A i \in DOMAIN senders :
          /\ senders[i].daily_sent <= DailyLimit
          /\ senders[i].h_ok <= DailyLimit
    /\ (/\ last.called
        /\ last.entered
        /\ last.before.h_day = last.day
        /\ last.before.h_ok = DailyLimit) =>
            /\ ~last.result.success
            /\ last.result.error = DailyLimitError
            /\ last.opened = 0
            /\ ~last.accepted
            /\ senders[last.sender].daily_sent = DailyLimit

\* C1 witness: the call after DailyLimit successful sends of the day was refused.
C1_Witness ==
    /\ last.called
    /\ last.op = "send_email"
    /\ last.before.h_day = last.day
    /\ last.before.h_ok = DailyLimit
    /\ last.result.error = DailyLimitError
    /\ smtp.opened = DailyLimit

\* C6: every send_email or send_template_email call that returned added
\* exactly one email_logs row, with status sent on success and status
\* failed and the error on failure.
C6_OneRowPerAttempt ==
    last.called =>
        /\ Len(last.rows) = 1
        /\ last.rows[1].status = (IF last.result.success THEN "sent" ELSE "failed")
        /\ ~last.result.success => last.rows[1].error_message = last.result.error

(***************************************************************************)
(* outreach/email_sender.py: CampaignManager, over the tables leads,       *)
(* email_campaigns and email_logs.  run_campaign is modelled one loop      *)
(* iteration at a time, so that the date can change while it sleeps.       *)
(***************************************************************************)
\* a row of leads, as the campaign path reads it
LeadRow(company_name, website, email, contact_name) ==
    [company_name |-> company_name, website |-> website, email |-> email,
     contact_name |-> contact_name, status |-> "new", last_contacted |-> <<>>]

\* the leads the campaigns run over: two with an email, one without;
\* id 4 is the id of no row
StoredLeads ==
    << LeadRow("Acme Tekstil", "acme.com", "buyer@acme.com", None),
       LeadRow("Beta Moda", "beta.com", "info@beta.com", "Ayse"),
       LeadRow("Gamma Tekstil", "gamma.com", None, None) >>

\* A lead without email is sent to as well (the test of `lead` alone).
SkipsOnlyMissingLead(table, lead_id) ==
    lead_id \notin DOMAIN table

\* `not lead or not lead.email`
NoLeadOrEmail(table, lead_id) ==
    IF lead_id \notin DOMAIN table THEN TRUE
    ELSE table[lead_id].email \in {None, ""}

\* The lead is marked contacted whatever the send returned.
lead_marked_always(lead, success, day) ==
    [lead EXCEPT !.status = "contacted", !.last_contacted = <<day>>]

\* run_campaign, lines 327-334: the lead row after the send and the commit
lead_after_send(lead, success, day) ==
    IF success
    THEN [lead EXCEPT !.status = "contacted", !.last_contacted = <<day>>]
    ELSE lead

\* the variables run_campaign passes for a lead
LeadVariables(lead, extra_variables) ==
    Merge([contact_name |-> IF lead.contact_name = None THEN Str("Sir/Madam")
                            ELSE Str(lead.contact_name),
           their_company |-> Str(lead.company_name),
           company_name |-> Str(lead.company_name)],
          extra_variables)

\* the row create_campaign inserts
CampaignRow(template_name, lead_ids) ==
    [template_name |-> template_name, status |-> "draft",
     total_recipients |-> Len(lead_ids), sent_count |-> 0]

\* run_campaign, lines 290-294: the campaign row, if there is one, made active
MarkActive(table, campaign_id, day) ==
    IF campaign_id \in DOMAIN table
    THEN [table EXCEPT ![campaign_id].status = "active"]
    ELSE table

\* run_campaign, lines 346-350: the campaign row, if there is one, completed
MarkCompleted(table, campaign_id, day, sent) ==
    IF campaign_id \in DOMAIN table
    THEN [table EXCEPT ![campaign_id].status = "completed",
                       ![campaign_id].sent_count = sent]
    ELSE table

\* progress_callback(i + 1, len(lead_ids), result): "none" is no callback,
\* "progress_cb" is send_campaign's, which reads result["success"] and
\* result["to_email"]; TRUE when the callback raises KeyError
CallbackRaises(cb, result) ==
    cb = "progress_cb" /\ ~({"success", "to_email"} \subseteq result.keys)

\* the calls campaigns are created and run with: template_name,
\* extra_variables, progress_callback and lead_ids
Scenarios ==
    {\* a run whose template renders, without callback
     [template_name |-> "initial_contact_en",
      extra_variables |-> Restrict(KeyValues, ProfileKeys), cb |-> "none",
      lead_ids |-> <<1, 2>>],
     \* leads to skip (3 has no email, 4 is no row), with send_campaign's callback
     [template_name |-> "initial_contact_en",
      extra_variables |-> Restrict(KeyValues, ProfileKeys), cb |-> "progress_cb",
      lead_ids |-> <<3, 1, 4>>],
     \* as send_campaign calls it: no extra variables, its callback
     [template_name |-> "initial_contact_en",
      extra_variables |-> EmptyDict, cb |-> "progress_cb",
      lead_ids |-> <<1, 2>>],
     \* an unknown template and a repeated lead id
     [template_name |-> "no_such_template",
      extra_variables |-> Restrict(KeyValues, ProfileKeys), cb |-> "none",
      lead_ids |-> <<1, 1>>],
     \* a repeated lead id with a template that renders
     [template_name |-> "initial_contact_en",
      extra_variables |-> Restrict(KeyValues, ProfileKeys), cb |-> "none",
      lead_ids |-> <<1, 1>>],
     \* no lead at all
     [template_name |-> "initial_contact_en",
      extra_variables |-> Restrict(KeyValues, ProfileKeys), cb |-> "none",
      lead_ids |-> <<>>]}

\* the calls of create_campaign: template_name and lead_ids
CreateCalls ==
    {[template_name |-> "initial_contact_en", lead_ids |-> <<1, 2>>],
     [template_name |-> "no_such_template", lead_ids |-> <<>>]}

\* what the mail server does to a campaign's send
CampaignSmtpOutcomes == {"ok", "sendmail_fail", "quit_fail"}

NoRun == [pc |-> "idle", used |-> 0]

\* one CampaignManager() constructed on day 0, the leads stored
InitCampaign ==
    /\ today = 0
    /\ senders = <<NewSender(0)>>
    /\ leads = StoredLeads
    /\ campaigns = <<>>
    /\ email_logs = EmptyBag
    /\ outbox = EmptyBag
    /\ smtp = [opened |-> 0, open |-> 0]
    /\ run = NoRun
    /\ last = NoCall
    /\ SearchIdle
    /\ RenderIdle
    /\ ToolsIdle

\* create_campaign(name, template_name, lead_ids)
CreateCampaign ==
    \E k \in CreateCalls :
        /\ run.pc # "loop"
        /\ Len(campaigns) < MaxCampaigns
        /\ campaigns' = Append(campaigns, CampaignRow(k.template_name, k.lead_ids))
        /\ UNCHANGED <<today, senders, leads, email_logs, outbox, smtp, run, last,
                       searchVars, renderVars, toolVars>>

\* run_campaign(campaign_id, lead_ids, template_name, extra_variables,
\* progress_callback) on manager m, up to the loop
RunStart ==
    \E m \in DOMAIN senders, c \in DOMAIN campaigns, k \in Scenarios :
        /\ run.pc # "loop"
        /\ run.used + Len(k.lead_ids) <= MaxLeadIds
        /\ campaigns' = MarkActive(campaigns, c, today)
        /\ run' = [pc |-> "loop", used |-> run.used + Len(k.lead_ids), mgr |-> m, campaign_id |-> c,
                   lead_ids |-> k.lead_ids, template_name |-> k.template_name,
                   extra_variables |-> k.extra_variables, cb |-> k.cb,
                   i |-> 1,
                   results |-> [total |-> Len(k.lead_ids), sent |-> 0, failed |-> 0,
                                skipped |-> 0],
                   sender_calls |-> <<>>, cb_calls |-> <<>>, sleeps |-> <<>>]
        /\ UNCHANGED <<today, senders, leads, email_logs, outbox, smtp, last,
                       searchVars, renderVars, toolVars>>

\* the tally without the skipped leads
tally_sends_only(results, outcome) ==
    [results EXCEPT !.sent = @ + (IF outcome = "sent" THEN 1 ELSE 0),
                    !.failed = @ + (IF outcome = "failed" THEN 1 ELSE 0)]

\* results[...] += 1 of the loop: one of the three counters per lead id
tally(results, outcome) ==
    [results EXCEPT !.sent = @ + (IF outcome = "sent" THEN 1 ELSE 0),
                    !.failed = @ + (IF outcome = "failed" THEN 1 ELSE 0),
                    !.skipped = @ + (IF outcome = "skipped" THEN 1 ELSE 0)]

\* one iteration of the loop over a lead that is missing or has no email
RunSkip ==
    /\ run.pc = "loop"
    /\ run.i <= Len(run.lead_ids)
    /\ NoLeadOrEmail(leads, run.lead_ids[run.i])
    /\ run' = [run EXCEPT !.results = tally(@, "skipped"), !.i = @ + 1]
    /\ UNCHANGED <<today, senders, leads, campaigns, email_logs, outbox, smtp,
                   last, searchVars, renderVars, toolVars>>

\* one iteration of the loop over a lead with an email: the send, the tally,
\* the lead's update and commit, the callback and the sleep
RunSend ==
    \E outcome \in CampaignSmtpOutcomes :
        /\ run.pc = "loop"
        /\ run.i <= Len(run.lead_ids)
        /\ ~NoLeadOrEmail(leads, run.lead_ids[run.i])
        /\ LET lead_id == run.lead_ids[run.i]
               lead == leads[lead_id]
               variables == LeadVariables(lead, run.extra_variables)
               e == send_template_email(senders[run.mgr], lead.email,
                                        run.template_name, variables, lead_id,
                                        run.campaign_id, outcome, today)
               raises == CallbackRaises(run.cb, e.result)
               called == run.cb # "none"
               sleeps == ~raises /\ run.i < Len(run.lead_ids)
           IN  /\ ApplyEffect(run.mgr, e)
               /\ leads' = [leads EXCEPT
                              ![lead_id] = lead_after_send(lead, e.result.success, today)]
               /\ run' = [run EXCEPT
                            !.results = tally(@, IF e.result.success THEN "sent"
                                                 ELSE "failed"),
                            !.sender_calls = Append(@, run.i),
                            !.cb_calls = IF called
                                         THEN Append(@, <<run.i, Len(run.lead_ids),
                                                          e.result.success>>)
                                         ELSE @,
                            !.sleeps = IF sleeps THEN Append(@, run.i) ELSE @,
                            !.pc = IF raises THEN "aborted" ELSE "loop",
                            !.i = IF raises THEN @ ELSE @ + 1]
        /\ UNCHANGED <<today, campaigns, last, searchVars, renderVars, toolVars>>

\* the loop is over: the campaign completed, the summary returned
RunFinish ==
    /\ run.pc = "loop"
    /\ run.i > Len(run.lead_ids)
    /\ campaigns' = MarkCompleted(campaigns, run.campaign_id, today, run.results.sent)
    /\ run' = [run EXCEPT !.pc = "returned"]
    /\ UNCHANGED <<today, senders, leads, email_logs, outbox, smtp, last,
                   searchVars, renderVars, toolVars>>

Next ==
    \/ CreateCampaign
    \/ RunStart
    \/ RunSkip
    \/ RunSend
    \/ RunFinish
    \/ AdvanceDay

Spec == InitCampaign /\ [][Next]_vars

\* the same operations with MaxSenders CampaignManager() constructed on day
\* 0, each with its own EmailSender
InitManagers ==
    /\ today = 0
    /\ senders = [m \in 1..MaxSenders |-> NewSender(0)]
    /\ leads = StoredLeads
    /\ campaigns = <<>>
    /\ email_logs = EmptyBag
    /\ outbox = EmptyBag
    /\ smtp = [opened |-> 0, open |-> 0]
    /\ run = NoRun
    /\ last = NoCall
    /\ SearchIdle
    /\ RenderIdle
    /\ ToolsIdle

SpecManagers == InitManagers /\ [][Next]_vars

(***************************************************************************)
(* Claims about campaigns.                                                 *)
(***************************************************************************)
\* the messages of day d that were handed over by a send that returned success
SentOn(d) ==
    LET rows == {r \in BagToSet(outbox) : r.day = d /\ r.success}
        RECURSIVE Total(_)
        Total(S) == IF S = {} THEN 0
                    ELSE LET r == CHOOSE x \in S : TRUE
                         IN  CopiesIn(r, outbox) + Total(S \ {r})
    IN  Total(rows)

\* C2: over the campaign runs of one day, whichever CampaignManager runs
\* them, the messages successfully sent on that day never exceed DailyLimit.
C2_DailyTotalWithinCap ==
    \A d \in 0..MaxDay : SentOn(d) <= DailyLimit

\* the positions of run.lead_ids whose lead is missing or has no stored email
NoEmailPositions ==
    {j \in 1..Len(run.lead_ids) :
        IF run.lead_ids[j] \notin DOMAIN leads THEN TRUE
        ELSE leads[run.lead_ids[j]].email \in {None, ""}}

SeqRange(q) == {q[j] : j \in 1..Len(q)}

\* C3: run_campaign never calls send_template_email for a lead id whose
\* lead is missing or has no stored email, and the summary it returns has
\* skipped = the number of those ids.
C3_SkipsLeadsWithoutEmail ==
    run.pc # "idle" =>
        /\ SeqRange(run.sender_calls) \cap NoEmailPositions = {}
        /\ run.pc = "returned" => run.results.skipped = Cardinality(NoEmailPositions)

\* C3 witness: the run over <<3, 1, 4>> returned skipped = 2 after one send.
C3_Witness ==
    /\ run.pc = "returned"
    /\ run.lead_ids = <<3, 1, 4>>
    /\ run.results.skipped = 2
    /\ run.sender_calls = <<2>>

StatusRank(status) ==
    IF status = "draft" THEN 0 ELSE IF status = "active" THEN 1 ELSE 2

\* C4: no step moves a campaign's status backwards along
\* draft -> active -> completed.
C4_StatusOnlyForward ==
    [][\A c \in DOMAIN campaigns :
          StatusRank(campaigns'[c].status) >= StatusRank(campaigns[c].status)]_vars

\* C5: no per-recipient failure aborts run_campaign, with or without a
\* progress callback: the run never ends by an exception, and when it has
\* returned every lead id was tallied and the campaign is completed.
C5_FailureNeverAborts ==
    /\ run.pc # "aborted"
    /\ run.pc = "returned" =>
          /\ run.results.sent + run.results.failed + run.results.skipped
                = Len(run.lead_ids)
          /\ campaigns[run.campaign_id].status = "completed"

(***************************************************************************)
(* The save loop of the search command: one session per run, a duplicate   *)
(* query per scraped record, one commit after the loop.  The session       *)
(* autoflushes: a query first INSERTs the rows added so far, inside the    *)
(* run's transaction, which takes the database's write lock until commit.  *)
(***************************************************************************)
SearchRuns == {1, 2}

\* what the scrapers return: company_name and website of each record
Scraped ==
    { [company_name |-> "Acme Tekstil", website |-> "acme.com"],
      [company_name |-> "Acme Tekstil", website |-> None],
      [company_name |-> "Beta Moda", website |-> "beta.com"] }

RECURSIVE Batches(_)
Batches(n) ==
    IF n = 0 THEN {<<>>}
    ELSE LET shorter == Batches(n - 1)
         IN  shorter \cup {Append(b, x) : b \in {c \in shorter : Len(c) = n - 1},
                                          x \in Scraped}

PairOf(row) == <<row.company_name, row.website>>

\* the query sees the committed rows only
ExistingCommittedOnly(table, flushed, pair) ==
    \E k \in DOMAIN table : PairOf(table[k]) = pair

\* session.query(Lead).filter_by(company_name=..., website=...).first() is
\* not None: the committed rows and the rows this session has flushed
Existing(table, flushed, pair) ==
    \/ \E k \in DOMAIN table : PairOf(table[k]) = pair
    \/ \E k \in DOMAIN flushed : PairOf(flushed[k]) = pair

\* a commit that drops each row whose pair the table already holds
CommitUnique(table, rows) ==
    LET RECURSIVE Put(_, _)
        Put(t, k) ==
            IF k > Len(rows) THEN t
            ELSE IF \E j \in DOMAIN t : PairOf(t[j]) = PairOf(rows[k])
                 THEN Put(t, k + 1)
                 ELSE Put(Append(t, rows[k]), k + 1)
    IN  Put(table, 1)

\* session.commit(): every flushed row becomes a row of the table; Lead
\* declares no uniqueness constraint
Commit(table, rows) == table \o rows

IdleSearch == [pc |-> "idle"]

\* a run holds rows to flush and another run holds the write lock
Blocked(r) ==
    /\ srch[r].new # <<>>
    /\ db_writer \notin {0, r}

InitSearch ==
    /\ OutreachIdle
    /\ RenderIdle
    /\ ToolsIdle
    /\ srch = [r \in SearchRuns |-> IdleSearch]
    /\ db_writer = 0

\* the scrapers have returned `batch`; session = get_session()
SearchBegin(r, batch) ==
    /\ srch[r].pc = "idle"
    /\ srch' = [srch EXCEPT ![r] =
                   [pc |-> "loop", batch |-> batch, i |-> 1, new |-> <<>>,
                    flushed |-> <<>>, saved_count |-> 0, passed |-> {}]]
    /\ UNCHANGED <<db_writer, outreachVars, renderVars, toolVars>>

\* one iteration of the loop: autoflush, the duplicate query, session.add
SearchCheck(r) ==
    /\ srch[r].pc = "loop"
    /\ srch[r].i <= Len(srch[r].batch)
    /\ ~Blocked(r)
    /\ LET me == srch[r]
           lead_data == me.batch[me.i]
           flushed == me.flushed \o me.new
           existing == Existing(leads, flushed, PairOf(lead_data))
           lead == LeadRow(lead_data.company_name, lead_data.website, None, None)
       IN  /\ srch' = [srch EXCEPT ![r] =
                          [me EXCEPT !.i = me.i + 1,
                                     !.flushed = flushed,
                                     !.new = IF existing THEN <<>> ELSE <<lead>>,
                                     !.saved_count = IF existing THEN @ ELSE @ + 1,
                                     !.passed = IF existing THEN @
                                                ELSE @ \cup {PairOf(lead_data)}]]
           /\ db_writer' = IF flushed # <<>> THEN r ELSE db_writer
    /\ UNCHANGED <<outreachVars, renderVars, toolVars>>

\* session.commit() after the loop: flush, commit, release the lock
SearchCommit(r) ==
    /\ srch[r].pc = "loop"
    /\ srch[r].i > Len(srch[r].batch)
    /\ ~Blocked(r)
    /\ leads' = Commit(leads, srch[r].flushed \o srch[r].new)
    /\ srch' = [srch EXCEPT ![r] = [@ EXCEPT !.pc = "done", !.new = <<>>,
                                             !.flushed = <<>>]]
    /\ db_writer' = 0
    /\ UNCHANGED <<today, senders, campaigns, email_logs, outbox, smtp, run,
                   last, renderVars, toolVars>>

\* the flush waited for the write lock until the timeout: OperationalError,
\* the command ends and nothing of the run is stored
SearchLocked(r) ==
    /\ srch[r].pc = "loop"
    /\ Blocked(r)
    /\ srch' = [srch EXCEPT ![r] = [@ EXCEPT !.pc = "failed", !.new = <<>>,
                                             !.flushed = <<>>]]
    /\ UNCHANGED <<db_writer, outreachVars, renderVars, toolVars>>

NoSearchInProgress == \A r \in SearchRuns : srch[r].pc # "loop"

\* a run begins when no other is in progress
SearchBeginAlone ==
    \E r \in SearchRuns, batch \in Batches(MaxBatch) :
        NoSearchInProgress /\ SearchBegin(r, batch)

SearchBeginAny ==
    \E r \in SearchRuns, batch \in Batches(MaxBatch) : SearchBegin(r, batch)

SearchStep == \E r \in SearchRuns : SearchCheck(r)

SearchEnd == \E r \in SearchRuns : SearchCommit(r)

SearchTimeout == \E r \in SearchRuns : SearchLocked(r)

NextSearchSeq == SearchBeginAlone \/ SearchStep \/ SearchEnd

SpecSearchSeq == InitSearch /\ [][NextSearchSeq]_vars

NextSearchConc == SearchBeginAny \/ SearchStep \/ SearchEnd \/ SearchTimeout

SpecSearchConc == InitSearch /\ [][NextSearchConc]_vars

(***************************************************************************)
(* Claims about the save loop.                                             *)
(***************************************************************************)
RowsFor(pair) == Cardinality({k \in DOMAIN leads : PairOf(leads[k]) = pair})

AcmePair == <<"Acme Tekstil", "acme.com">>

AcmeRecord == [company_name |-> "Acme Tekstil", website |-> "acme.com"]

\* C7: when the runs follow one another, the table never holds two rows
\* with the same (company_name, website), nor does the table together with
\* the rows the run in progress is about to store.
C7_SequentialNoDuplicates ==
    \A r \in SearchRuns :
        LET rows == IF srch[r].pc = "loop"
                    THEN leads \o srch[r].flushed \o srch[r].new
                    ELSE leads
        IN  \A j, k \in DOMAIN rows :
                PairOf(rows[j]) = PairOf(rows[k]) => j = k

\* C7 witness: one run saved the same record twice in its batch, the other
\* run saved it again, and the table holds one row for it.
C7_Witness ==
    /\ srch[1].pc = "done" /\ srch[1].batch = <<AcmeRecord, AcmeRecord>>
    /\ srch[2].pc = "done" /\ srch[2].batch = <<AcmeRecord>>
    /\ RowsFor(AcmePair) = 1

\* C8: when two interleaved runs have both passed the duplicate check for
\* a pair and both have committed, the table holds a row of each: two rows
\* for the pair.
C8_InterleavedRunsStoreBoth ==
    \A pair \in {PairOf(x) : x \in Scraped} :
        (/\ \A r \in SearchRuns : srch[r].pc = "done" /\ pair \in srch[r].passed)
            => RowsFor(pair) = 2

\* C8 witness: both runs passed the check for Acme Tekstil / acme.com, both
\* committed, and the table holds two rows for the pair.
C8_Witness ==
    /\ \A r \in SearchRuns : srch[r].pc = "done" /\ AcmePair \in srch[r].passed
    /\ RowsFor(AcmePair) = 2

(***************************************************************************)
(* email_tools/email_finder.py: EmailValidator.  An address is a sequence  *)
(* of atoms: "@", "." and the labels between them.  validate is modelled   *)
(* step by step: the call, validate_email (step 1), the MX lookup of       *)
(* _check_mx_record (step 2).                                              *)
(***************************************************************************)
\* the positions of atom x in text
Positions(text, x) == {k \in DOMAIN text : text[k] = x}

\* email.split('@'): the pieces between the "@"
RECURSIVE SplitAt(_)
SplitAt(text) ==
    IF Positions(text, "@") = {} THEN <<text>>
    ELSE LET k == CHOOSE j \in Positions(text, "@") :
                      \A m \in Positions(text, "@") : j <= m
         IN  <<SubSeq(text, 1, k - 1)>> \o SplitAt(SubSeq(text, k + 1, Len(text)))

\* the syntax rules of validate_email that the addresses below exercise:
\* one "@", a local part, a domain of labels separated by single periods
\* with at least one period, no special-use top-level name
SyntaxValid(email) ==
    LET parts == SplitAt(email)
        domain == parts[2]
    IN  /\ Len(parts) = 2
        /\ parts[1] # <<>>
        /\ domain # <<>>
        /\ Positions(domain, ".") # {}
        /\ \A k \in DOMAIN domain : (domain[k] = ".") <=> (k % 2 = 0)
        /\ Len(domain) % 2 = 1
        /\ domain[Len(domain)] \notin {"test", "invalid", "localhost"}

\* what a DNS query for a domain's MX records can end in
DnsAnswers == {"mx", "no_answer", "nxdomain", "timeout"}

\* validate_email(email), called with its defaults: a syntax error raises
\* EmailNotValidError before any query; otherwise the library checks
\* deliverability with a query of its own (check_deliverability defaults to
\* true) and raises EmailNotValidError for a domain it finds undeliverable.
\* Without MX answer it falls back to the address records, and what it does
\* on a timeout depends on its version: both verdicts are possible.
LibraryVerdicts(email, answer) ==
    IF ~SyntaxValid(email) THEN {[ok |-> FALSE, reason |-> "syntax", queries |-> 0]}
    ELSE IF answer = "mx" THEN {[ok |-> TRUE, reason |-> None, queries |-> 1]}
    ELSE IF answer = "nxdomain"
         THEN {[ok |-> FALSE, reason |-> "undeliverable", queries |-> 1]}
    ELSE {[ok |-> TRUE, reason |-> None, queries |-> 1],
          [ok |-> FALSE, reason |-> "undeliverable", queries |-> 1]}

\* The MX lookup is made whatever step 1 found.
after_format_always_mx(verdict) == "mx"

\* validate, lines 203-207: EmailNotValidError returns (False, str(e))
after_format(verdict) == IF verdict.ok THEN "mx" ELSE "returned"

\* Any failure of the lookup but NXDOMAIN counts as a record found.
check_mx_record_open(answer) == answer # "nxdomain"

\* EmailValidator._check_mx_record: resolve(domain, 'MX') returned
check_mx_record(answer) == answer = "mx"

NoMxRecords == "Domain has no MX records"

\* the addresses validated
Addresses ==
    { <<"a", "@", "x", ".", "com">>,
      <<"sales", "@", "acme", ".", "com", ".", "tr">>,
      <<"ax", ".", "com">>,
      <<"a", "@", "x">>,
      <<"@", "x", ".", "com">>,
      <<"a", "@", "b", "@", "x", ".", "com">>,
      <<"x", "@", "nonexistent-domain-xyz123", ".", "test">> }

InitValidator ==
    /\ OutreachIdle
    /\ SearchIdle
    /\ RenderIdle
    /\ vld = [pc |-> "idle", n |-> 0]
    /\ rnk = NoCall
    /\ fetch = [pc |-> "idle"]
    /\ cmd = [pc |-> "idle"]
    /\ ScrapeIdle

valFrame == UNCHANGED <<outreachVars, searchVars, renderVars, rnk, fetch, cmd, scrapeVars>>

\* validator.validate(email)
ValidateCall ==
    \E email \in Addresses :
        /\ vld.pc \in {"idle", "returned"}
        /\ vld.n < MaxCalls
        /\ vld' = [pc |-> "format", n |-> vld.n + 1, email |-> email,
                   syntax_ok |-> SyntaxValid(email), lib_queries |-> 0,
                   lib_answer |-> None, mx_queries |-> 0, mx_answer |-> None,
                   result |-> <<>>]
        /\ valFrame

\* step 1: validate_email(email)
ValidateFormat ==
    /\ vld.pc = "format"
    /\ \E answer \in DnsAnswers :
          \E verdict \in LibraryVerdicts(vld.email, answer) :
              vld' = [vld EXCEPT
                        !.pc = after_format(verdict),
                        !.lib_queries = verdict.queries,
                        !.lib_answer = IF verdict.queries = 0 THEN None ELSE answer,
                        !.result = IF verdict.ok THEN <<>>
                                   ELSE <<FALSE, verdict.reason>>]
    /\ valFrame

\* step 2: _check_mx_record(email.split('@')[1]) and the return
ValidateMX ==
    \E answer \in DnsAnswers :
        /\ vld.pc = "mx"
        /\ vld' = [vld EXCEPT
                     !.pc = "returned",
                     !.mx_queries = 1,
                     !.mx_answer = answer,
                     !.result = IF check_mx_record(answer) THEN <<TRUE, "Valid">>
                                ELSE IF @ = <<>> THEN <<FALSE, NoMxRecords>>
                                ELSE @]
        /\ valFrame

NextValidator == ValidateCall \/ ValidateFormat \/ ValidateMX

SpecValidator == InitValidator /\ [][NextValidator]_vars

(***************************************************************************)
(* Claims about the validator.                                             *)
(***************************************************************************)
\* C11: the syntax check comes strictly before the MX lookup: when validate
\* has returned for an address the syntax check rejects, the result is
\* (false, reason) and no DNS query was made, neither by validate_email
\* nor by _check_mx_record; and no MX lookup is made before step 1 is over.
C11_SyntaxBeforeMX ==
    /\ vld.pc = "format" => vld.mx_queries = 0
    /\ (vld.pc \in {"mx", "returned"} /\ ~vld.syntax_ok) =>
          /\ vld.pc = "returned"
          /\ vld.result[1] = FALSE
          /\ vld.lib_queries = 0
          /\ vld.mx_queries = 0

\* C11 witness: validate returned (false, reason) for the address without
\* "@", no query made.
C11_Witness ==
    /\ vld.pc = "returned"
    /\ vld.email = <<"ax", ".", "com">>
    /\ vld.result = <<FALSE, "syntax">>
    /\ vld.mx_queries = 0

\* the answer to the last MX query validate made for the address
LastAnswer == IF vld.mx_queries = 1 THEN vld.mx_answer ELSE vld.lib_answer

\* C12: validate fails closed: for a syntactically valid address whose
\* domain has no MX record, or whose resolution fails or times out, it
\* returns (false, "Domain has no MX records"); it returns (true, ...) only
\* when the MX lookup succeeded.
C12_FailsClosed ==
    vld.pc = "returned" =>
        /\ vld.result[1] => vld.mx_answer = "mx"
        /\ (vld.syntax_ok /\ LastAnswer # "mx") =>
              vld.result = <<FALSE, NoMxRecords>>

(***************************************************************************)
(* email_tools/email_finder.py: EmailFinder._prioritize_emails.  The       *)
(* mailbox name is a sequence of atoms; a keyword occurs in it when it is  *)
(* one of its atoms ("re" "import" contains "import").                     *)
(***************************************************************************)
MaxEmails == 3

priority_prefixes ==
    <<"export", "import", "sales", "purchasing", "procurement", "buyer",
      "orders", "inquiry", "info", "contact", "hello">>

\* str.lower() on the atoms used here
Lower(atom) ==
    IF atom = "Sales" THEN "sales" ELSE IF atom = "INFO" THEN "info" ELSE atom

LowerAll(text) == [k \in DOMAIN text |-> Lower(text[k])]

\* get_priority: the index (from 0) of the first keyword found in
\* email.split('@')[0].lower(), len(priority_prefixes) when none is
get_priority(email) ==
    LET prefix == LowerAll(SplitAt(email)[1])
        found == {i \in DOMAIN priority_prefixes :
                     Positions(prefix, priority_prefixes[i]) # {}}
    IN  IF found = {} THEN Len(priority_prefixes)
        ELSE (CHOOSE i \in found : \A j \in found : i <= j) - 1

\* An element goes before the elements of equal key.
InsertBeforeEqual(sorted, e) ==
    LET k == Cardinality({j \in DOMAIN sorted :
                             get_priority(sorted[j]) < get_priority(e)})
    IN  SubSeq(sorted, 1, k) \o <<e>> \o SubSeq(sorted, k + 1, Len(sorted))

\* sorted(..., key=get_priority) is stable: an element goes after the
\* elements whose key is not larger
InsertStable(sorted, e) ==
    LET k == Cardinality({j \in DOMAIN sorted :
                             get_priority(sorted[j]) <= get_priority(e)})
    IN  SubSeq(sorted, 1, k) \o <<e>> \o SubSeq(sorted, k + 1, Len(sorted))

RECURSIVE SortedByPriority(_, _)
SortedByPriority(done, rest) ==
    IF rest = <<>> THEN done
    ELSE SortedByPriority(InsertStable(done, Head(rest)), Tail(rest))

\* EmailFinder._prioritize_emails(emails)
prioritize_emails(emails) == SortedByPriority(<<>>, emails)

\* the addresses ranked
Candidates ==
    { <<"a", "@", "x", ".", "com">>,
      <<"sales", "@", "x", ".", "com">>,
      <<"random", "@", "x", ".", "com">>,
      <<"INFO", "@", "x", ".", "com">>,
      <<"re", "import", "@", "x", ".", "com">>,
      <<"Sales", ".", "info", "@", "y", ".", "com">> }

RECURSIVE Lists(_, _)
Lists(S, n) ==
    IF n = 0 THEN {<<>>}
    ELSE LET shorter == Lists(S, n - 1)
         IN  shorter \cup {Append(q, x) : q \in {c \in shorter : Len(c) = n - 1},
                                          x \in S}

InitRank ==
    /\ OutreachIdle
    /\ SearchIdle
    /\ RenderIdle
    /\ vld = [pc |-> "idle"]
    /\ rnk \in {[called |-> FALSE, emails |-> q, ranked |-> <<>>] :
                   q \in Lists(Candidates, MaxEmails)}
    /\ fetch = [pc |-> "idle"]
    /\ cmd = [pc |-> "idle"]
    /\ ScrapeIdle

Prioritize ==
    /\ ~rnk.called
    /\ rnk' = [rnk EXCEPT !.called = TRUE, !.ranked = prioritize_emails(rnk.emails)]
    /\ UNCHANGED <<outreachVars, searchVars, renderVars, vld, fetch, cmd, scrapeVars>>

NextRank == Prioritize

SpecRank == InitRank /\ [][NextRank]_vars

(***************************************************************************)
(* Claims about the ranking.                                               *)
(***************************************************************************)
\* the addresses of text whose priority is p, in their order in text
Bucket(text, p) ==
    LET Test(e) == get_priority(e) = p
    IN  SelectSeq(text, Test)

\* C13: the ranking is a stable sort by keyword priority: the output has
\* the input's length, its priorities never decrease, and for every
\* priority the addresses of that priority are those of the input, in
\* input order (so the output is a permutation of the input).
C13_StableRanking ==
    rnk.called =>
        /\ Len(rnk.ranked) = Len(rnk.emails)
        /\ \A i, j \in DOMAIN rnk.ranked :
              i < j => get_priority(rnk.ranked[i]) <= get_priority(rnk.ranked[j])
        /\ \A p \in 0..Len(priority_prefixes) :
              Bucket(rnk.ranked, p) = Bucket(rnk.emails, p)

\* C13 witness: [a@x.com, sales@x.com, random@x.com] ranked as
\* [sales@x.com, a@x.com, random@x.com].
C13_Witness ==
    /\ rnk.called
    /\ rnk.emails = << <<"a", "@", "x", ".", "com">>,
                       <<"sales", "@", "x", ".", "com">>,
                       <<"random", "@", "x", ".", "com">> >>
    /\ rnk.ranked = << <<"sales", "@", "x", ".", "com">>,
                       <<"a", "@", "x", ".", "com">>,
                       <<"random", "@", "x", ".", "com">> >>

(***************************************************************************)
(* Claims about the loop of run_campaign.                                  *)
(***************************************************************************)
\* the step is an iteration of run_campaign that sent to lead l
SendStep(l) ==
    IF run.pc = "loop" /\ run'.pc \in {"loop", "aborted"}
    THEN /\ Len(run'.sender_calls) = Len(run.sender_calls) + 1
         /\ run.lead_ids[run.i] = l
    ELSE FALSE

\* C14: a step changes a row of leads exactly when it is a send to that
\* lead that succeeded, and then the stored row has status contacted and
\* last_contacted set; after a failed send or a skip the stored row is the
\* row before it.
C14_ContactedOnSuccessOnly ==
    [][\A l \in DOMAIN leads :
          IF SendStep(l) /\ run'.results.sent = run.results.sent + 1
          THEN /\ leads'[l].status = "contacted"
               /\ leads'[l].last_contacted = <<today>>
               /\ leads'[l] = [leads[l] EXCEPT !.status = "contacted",
                                               !.last_contacted = <<today>>]
          ELSE leads'[l] = leads[l]]_vars

\* C14 witness: a run over <<1, 2>> returned after one send that succeeded
\* and one that failed; lead 1 is contacted, lead 2 is as it was.
C14_Witness ==
    /\ run.pc = "returned"
    /\ run.lead_ids = <<1, 2>>
    /\ run.results.sent = 1 /\ run.results.failed = 1
    /\ leads[1].status = "contacted" /\ leads[1].last_contacted # <<>>
    /\ leads[2] = StoredLeads[2]

\* C15: run_campaign sleeps only between two send attempts: every sleep
\* follows a send attempt and is followed by another, so that when the run
\* has returned no sleep followed its last send attempt.
C15_SleepOnlyBetweenSends ==
    run.pc \in {"loop", "returned", "aborted"} =>
        /\ SeqRange(run.sleeps) \subseteq SeqRange(run.sender_calls)
        /\ (run.pc = "returned" /\ run.sender_calls # <<>>) =>
              run.sender_calls[Len(run.sender_calls)] \notin SeqRange(run.sleeps)

\* C16: the progress callback is called once per send attempt and never
\* for a skipped lead, the k-th call with (k, len(lead_ids), result): the
\* number of send attempts made so far and the total number of lead ids.
C16_CallbackPerAttempt ==
    (run.pc \in {"loop", "returned", "aborted"} /\ run.cb # "none") =>
        /\ Len(run.cb_calls) = Len(run.sender_calls)
        /\ \A k \in DOMAIN run.cb_calls :
              /\ run.cb_calls[k][1] = k
              /\ run.cb_calls[k][2] = Len(run.lead_ids)

(***************************************************************************)
(* Claims about the daily counter of one EmailSender.                      *)
(***************************************************************************)
\* C17: a send_email call made on a date later than the sender's reset
\* date sets the counter to zero and the reset date to that date before it
\* tests the cap: after the call the reset date is the call's date, the
\* counter counts that call alone, and the call was not refused for the
\* daily limit, whatever the counter was before.
C17_ResetOnNewDay ==
    (last.called /\ last.entered /\ last.day > last.before.last_reset) =>
        /\ senders[last.sender].last_reset = last.day
        /\ senders[last.sender].daily_sent = (IF last.result.success THEN 1 ELSE 0)
        /\ last.result.error # DailyLimitError

\* C17 witness: a sender at the cap on day 0 sent successfully on day 1.
C17_Witness ==
    /\ last.called
    /\ last.before.daily_sent = DailyLimit
    /\ last.before.last_reset = 0
    /\ last.day = 1
    /\ last.result.success
    /\ senders[last.sender].daily_sent = 1
    /\ senders[last.sender].last_reset = 1

\* the messages sender i sent successfully on the days from d on
SuccessesSince(i, d) ==
    LET rows == {r \in BagToSet(outbox) : r.by = i /\ r.success /\ r.day >= d}
        RECURSIVE Total(_)
        Total(S) == IF S = {} THEN 0
                    ELSE LET r == CHOOSE x \in S : TRUE
                         IN  CopiesIn(r, outbox) + Total(S \ {r})
    IN  Total(rows)

\* C18: a call that returned success added exactly one to the counter and
\* a call that returned failure added nothing, counted from the value the
\* day's reset left; the counter equals the number of successful sends
\* since the last reset.
C18_CounterCountsSuccesses ==
    /\ last.called =>
          LET base == IF last.entered /\ last.day > last.before.last_reset
                      THEN 0 ELSE last.before.daily_sent
          IN  senders[last.sender].daily_sent
                 = base + (IF last.result.success THEN 1 ELSE 0)
    /\ \A i \in DOMAIN senders :
          senders[i].daily_sent = SuccessesSince(i, senders[i].last_reset)

\* C18 witness: after a successful send, a call the mail server failed
\* left the counter at one.
C18_Witness ==
    /\ last.called
    /\ last.entered
    /\ ~last.result.success
    /\ last.opened = 1
    /\ last.before.daily_sent = 1
    /\ last.day = last.before.last_reset
    /\ senders[last.sender].daily_sent = 1

(***************************************************************************)
(* main.py: the send_campaign command, as far as its two branches.         *)
(***************************************************************************)
\* leads[:5]
PreviewMax == 5

\* the names main.py binds at module level (lines 6-28 and its own
\* definitions) among those send_campaign reads
MainGlobals ==
    {"COMPANY_INFO", "get_session", "Lead", "EmailTemplateManager",
     "CampaignManager", "EmailSender", "Table", "Panel", "console", "pd"}

\* os.getenv("SMTP_USER", ""): the mail account of the environment
SmtpUsers == {"", "export@barantekstil.example"}

\* session.query(Lead).filter(Lead.email.isnot(None), Lead.status == status)
\* .limit(limit).all(): the ids, in id order
SelectLeads(table, status, limit) ==
    LET RECURSIVE Pick(_, _)
        Pick(k, got) ==
            IF k > Len(table) \/ Len(got) >= limit THEN got
            ELSE IF table[k].email # None /\ table[k].status = status
                 THEN Pick(k + 1, Append(got, k))
                 ELSE Pick(k + 1, got)
    IN  Pick(1, <<>>)

\* the preview of one lead, lines 394-406: the table row, or the error printed
PreviewRow(lead, template) ==
    LET rendered == render_template(COMPANY_INFO, template,
                        [contact_name |-> IF lead.contact_name = None
                                          THEN Str("Sir/Madam")
                                          ELSE Str(lead.contact_name),
                         their_company |-> Str(lead.company_name),
                         company_name |-> Str(lead.company_name)])
    IN  IF rendered.returned
        THEN [row |-> TRUE, to |-> lead.email, subject |-> rendered.subject]
        ELSE [row |-> FALSE, to |-> lead.email, subject |-> <<>>]

\* what a branch of the command writes: campaign rows, email_logs rows,
\* messages handed to the mail server, ids of leads marked contacted
NoWrites == [campaigns |-> <<>>, logs |-> <<>>, messages |-> <<>>, contacted |-> {}]

\* The preview goes through the campaign path: a campaign row, and for
\* each lead shown a message, a log row and the lead marked contacted.
preview_writes_sending(table, selected, template, day) ==
    [campaigns |-> <<CampaignRow(template, selected)>>,
     logs |-> [k \in DOMAIN selected |->
                  LogRow(selected[k], 1, table[selected[k]].email, "sent", None)],
     messages |-> [k \in DOMAIN selected |->
                      [day |-> day, to |-> table[selected[k]].email, by |-> 0,
                       success |-> TRUE]],
     contacted |-> SeqRange(selected)]

\* the dry-run branch, lines 384-409: it renders and prints, and writes nothing
preview_writes(table, selected, template, day) == NoWrites

\* the tables leads can be in when the command runs
LeadTables ==
    { StoredLeads,
      [StoredLeads EXCEPT ![1] = lead_after_send(StoredLeads[1], TRUE, 0)],
      SubSeq(StoredLeads, 3, 3),
      <<>> }

\* the command lines: --template, --status, --limit, --dry-run/--no-dry-run
CommandLines ==
    [template : {"initial_contact_en", "follow_up_1", "no_such_template"},
     status : {"new", "contacted"},
     limit : {1, 10},
     dry_run : {TRUE, FALSE}]

InitCommand ==
    /\ today = 0
    /\ senders = <<>>
    /\ leads \in LeadTables
    /\ campaigns = <<>>
    /\ email_logs = EmptyBag
    /\ outbox = EmptyBag
    /\ smtp = [opened |-> 0, open |-> 0]
    /\ run = NoRun
    /\ last = NoCall
    /\ SearchIdle
    /\ RenderIdle
    /\ vld = [pc |-> "idle"]
    /\ rnk = NoCall
    /\ fetch = [pc |-> "idle"]
    /\ cmd = [pc |-> "idle", n |-> 0]
    /\ ScrapeIdle

\* the command is started: the query, and the return when it finds no lead
CommandStart ==
    \E line \in CommandLines :
        /\ cmd.pc \in {"idle", "done", "raised"}
        /\ cmd.n < MaxCalls
        /\ LET selected == SelectLeads(leads, line.status, line.limit)
           IN  cmd' = [pc |-> IF selected = <<>> THEN "done"
                              ELSE IF line.dry_run THEN "preview" ELSE "send",
                       n |-> cmd.n + 1, line |-> line, selected |-> selected,
                       shown |-> <<>>, raised |-> None, smtp_user |-> None]
        /\ UNCHANGED <<outreachVars, searchVars, renderVars, vld, rnk, fetch,
                       scrapeVars>>

\* `if dry_run:` the preview of leads[:5]
CommandPreview ==
    /\ cmd.pc = "preview"
    /\ LET shown == SubSeq(cmd.selected, 1,
                           IF Len(cmd.selected) < PreviewMax THEN Len(cmd.selected)
                           ELSE PreviewMax)
           w == preview_writes(leads, shown, cmd.line.template, today)
       IN  /\ cmd' = [cmd EXCEPT
                        !.pc = "done",
                        !.shown = [k \in DOMAIN shown |->
                                      PreviewRow(leads[shown[k]], cmd.line.template)]]
           /\ campaigns' = campaigns \o w.campaigns
           /\ email_logs' = email_logs (+) SetToBag(SeqRange(w.logs))
           /\ outbox' = outbox (+) SetToBag(SeqRange(w.messages))
           /\ leads' = [l \in DOMAIN leads |->
                           IF l \in w.contacted
                           THEN lead_after_send(leads[l], TRUE, today)
                           ELSE leads[l]]
    /\ UNCHANGED <<today, senders, smtp, run, last, searchVars, renderVars,
                   vld, rnk, fetch, scrapeVars>>

\* `else:` line 413 reads EMAIL_CONFIG, a name main.py never binds:
\* NameError ends the command.  Were it bound, a CampaignManager would be
\* constructed, the campaign created and run_campaign entered.
CommandSend ==
    /\ cmd.pc = "send"
    /\ \E smtp_user \in SmtpUsers :
        IF "EMAIL_CONFIG" \notin MainGlobals
        THEN /\ cmd' = [cmd EXCEPT !.pc = "raised", !.raised = "NameError",
                                  !.smtp_user = smtp_user]
             /\ UNCHANGED <<senders, campaigns, run>>
        ELSE IF smtp_user = ""
        THEN /\ cmd' = [cmd EXCEPT !.pc = "done", !.smtp_user = smtp_user,
                                  !.shown = <<"SMTP not configured">>]
             /\ UNCHANGED <<senders, campaigns, run>>
        ELSE
            /\ cmd' = [cmd EXCEPT !.pc = "running", !.smtp_user = smtp_user]
            /\ senders' = Append(senders, NewSender(today))
            /\ campaigns' = Append(campaigns,
                                   CampaignRow(cmd.line.template, cmd.selected))
            /\ run' = [pc |-> "loop", used |-> 0, mgr |-> Len(senders) + 1,
                       campaign_id |-> Len(campaigns) + 1,
                       lead_ids |-> cmd.selected,
                       template_name |-> cmd.line.template,
                       extra_variables |-> EmptyDict, cb |-> "progress_cb",
                       i |-> 1,
                       results |-> [total |-> Len(cmd.selected), sent |-> 0,
                                    failed |-> 0, skipped |-> 0],
                       sender_calls |-> <<>>, cb_calls |-> <<>>, sleeps |-> <<>>]
    /\ UNCHANGED <<today, leads, email_logs, outbox, smtp, last, searchVars,
                   renderVars, vld, rnk, fetch, scrapeVars>>

NextCommand == CommandStart \/ CommandPreview \/ CommandSend

SpecCommand == InitCommand /\ [][NextCommand]_vars

(***************************************************************************)
(* Claims about the send_campaign command.                                 *)
(***************************************************************************)
\* C19: a step of the command in dry-run mode hands no message to the mail
\* server, creates no campaign row, writes no email_logs row and changes
\* no lead.
C19_DryRunWritesNothing ==
    [][(cmd' # cmd /\ cmd'.line.dry_run) =>
          /\ outbox' = outbox
          /\ smtp' = smtp
          /\ campaigns' = campaigns
          /\ email_logs' = email_logs
          /\ leads' = leads]_vars

\* C19 witness: a dry run of initial_contact_en over two leads has gone
\* through its preview, and the tables hold no campaign, log row or message.
C19_Witness ==
    /\ cmd.pc = "done"
    /\ cmd.line.dry_run
    /\ cmd.line.template = "initial_contact_en"
    /\ Len(cmd.shown) = 2
    /\ campaigns = <<>> /\ email_logs = EmptyBag /\ outbox = EmptyBag
    /\ leads = StoredLeads

(***************************************************************************)
(* scrapers/base_scraper.py: BaseScraper.fetch_page, one attempt a step.   *)
(***************************************************************************)
\* SCRAPING_CONFIG["max_retries"]
max_retries == 3

RECURSIVE Pow2(_)
Pow2(k) == IF k = 0 THEN 1 ELSE 2 * Pow2(k - 1)

\* The same pause after every failure.
backoff_constant(attempt) == 2

\* time.sleep(2 ** attempt)
backoff(attempt) == Pow2(attempt)

\* what session.get and raise_for_status end in: the page, or a
\* requests.RequestException (connection error, timeout, HTTP error status)
HttpOutcomes == {"page", "RequestException"}

Urls == {"https://acme.com", "https://acme.com/contact", "https://beta.com"}

\* the retries argument: not given (None) when the caller leaves it out
RetriesArgs ==
    {[given |-> FALSE, retries |-> 0]} \cup {[given |-> TRUE, retries |-> k] : k \in 0..2}

InitFetch ==
    /\ OutreachIdle
    /\ SearchIdle
    /\ RenderIdle
    /\ vld = [pc |-> "idle"]
    /\ rnk = NoCall
    /\ fetch = [pc |-> "idle", n |-> 0]
    /\ cmd = [pc |-> "idle"]
    /\ ScrapeIdle

fetchFrame == UNCHANGED <<outreachVars, searchVars, renderVars, vld, rnk, cmd, scrapeVars>>

\* fetch_page(url, retries), up to the loop; range(0) returns None at once
FetchCall ==
    \E url \in Urls, arg \in RetriesArgs :
        /\ fetch.pc \in {"idle", "returned"}
        /\ fetch.n < MaxCalls
        /\ LET retries == IF arg.given THEN arg.retries ELSE max_retries
           IN  fetch' = [pc |-> IF retries = 0 THEN "returned" ELSE "loop",
                         n |-> fetch.n + 1, url |-> url, given |-> arg.given,
                         retries |-> retries, attempt |-> 0, requests |-> 0,
                         failed |-> 0, delays |-> 0, sleeps |-> <<>>,
                         result |-> None]
        /\ fetchFrame

\* one iteration: random_delay, the request, and on RequestException the
\* backoff or the return of None
FetchAttempt ==
    \E outcome \in HttpOutcomes :
        /\ fetch.pc = "loop"
        /\ fetch.attempt < fetch.retries
        /\ fetch' =
             IF outcome = "page"
             THEN [fetch EXCEPT !.pc = "returned", !.requests = @ + 1,
                                !.delays = @ + 1, !.result = "soup"]
             ELSE IF fetch.attempt < fetch.retries - 1
                  THEN [fetch EXCEPT !.requests = @ + 1, !.delays = @ + 1,
                                     !.failed = @ + 1,
                                     !.sleeps = Append(@, backoff(fetch.attempt)),
                                     !.attempt = @ + 1]
                  ELSE [fetch EXCEPT !.pc = "returned", !.requests = @ + 1,
                                     !.delays = @ + 1, !.failed = @ + 1,
                                     !.result = None]
        /\ fetchFrame

NextFetch == FetchCall \/ FetchAttempt

SpecFetch == InitFetch /\ [][NextFetch]_vars

(***************************************************************************)
(* Claims about fetch_page.                                                *)
(***************************************************************************)
\* C20: fetch_page makes at most max_retries requests (retries, when the
\* caller passes it); it returns the document at the first request that
\* succeeds; after the k-th failed request, k from 0, it sleeps 2^k seconds
\* unless that was the last one allowed; it returns None once all requests
\* failed; while it runs, requests remain to be made, so it ends after at
\* most that many steps.
C20_FetchRetries ==
    fetch.pc \in {"loop", "returned"} =>
        /\ fetch.requests <= fetch.retries
        /\ ~fetch.given => fetch.requests <= max_retries
        /\ \A k \in DOMAIN fetch.sleeps : fetch.sleeps[k] = Pow2(k - 1)
        /\ fetch.pc = "loop" =>
              /\ fetch.requests < fetch.retries
              /\ fetch.failed = fetch.requests
              /\ Len(fetch.sleeps) = fetch.failed
        /\ (fetch.pc = "returned" /\ fetch.result = "soup") =>
              /\ fetch.failed = fetch.requests - 1
              /\ Len(fetch.sleeps) = fetch.failed
        /\ (fetch.pc = "returned" /\ fetch.result = None) =>
              /\ fetch.requests = fetch.retries
              /\ fetch.failed = fetch.retries
              /\ Len(fetch.sleeps) = (IF fetch.retries = 0 THEN 0
                                      ELSE fetch.retries - 1)

\* C20 witness: fetch_page(url) returned None after max_retries failed
\* requests and the pauses 1, 2.
C20_Witness ==
    /\ fetch.pc = "returned"
    /\ ~fetch.given
    /\ fetch.result = None
    /\ fetch.requests = max_retries
    /\ fetch.sleeps = <<1, 2>>

(***************************************************************************)
(* Claims about the SMTP session of send_email.                            *)
(***************************************************************************)
\* C24: a send_email call that contacts the mail server opens one session
\* of its own and that session is closed when the call returns, on the
\* success path and on every failure path: no session is ever left open.
C24_SessionClosedOnReturn ==
    /\ smtp.open = 0
    /\ last.called => (last.opened <= 1 /\ last.left_open = 0)

\* C29: send_email returns success exactly when the mail server accepted
\* the message; whenever the message was handed over, the result is
\* success, the counter went up by one and the email_logs row says sent,
\* also when quit() failed afterwards.
C29_SuccessIffAccepted ==
    (last.called /\ last.entered) =>
        /\ last.result.success <=> last.accepted
        /\ last.accepted =>
              /\ Len(last.rows) = 1
              /\ last.rows[1].status = "sent"
              /\ senders[last.sender].daily_sent
                    = (IF last.day > last.before.last_reset THEN 0
                       ELSE last.before.daily_sent) + 1

(***************************************************************************)
(* Claims about the summary of run_campaign.                               *)
(***************************************************************************)
Tallied(results) == results.sent + results.failed + results.skipped

\* C27: at every point of run_campaign's loop sent + failed + skipped is
\* the number of lead ids processed so far, and the returned summary has
\* total = sent + failed + skipped = len(lead_ids), also for an empty list
\* and a list with repeated ids.
C27_TallyCountsLeadIds ==
    /\ run.pc = "loop" => Tallied(run.results) = run.i - 1
    /\ run.pc = "returned" =>
          /\ run.results.total = Len(run.lead_ids)
          /\ Tallied(run.results) = run.results.total

\* a run over leads to send to and leads to skip has returned
C27_Witness ==
    /\ run.pc = "returned"
    /\ run.results.skipped > 0
    /\ run.results.sent > 0

\* the messages to address `to` that send_email reported as sent
SuccessesTo(to) ==
    LET rows == {r \in BagToSet(outbox) : r.to = to /\ r.success}
        RECURSIVE Total(_)
        Total(S) == IF S = {} THEN 0
                    ELSE LET r == CHOOSE x \in S : TRUE
                         IN  CopiesIn(r, outbox) + Total(S \ {r})
    IN  Total(rows)

\* C30: no lead receives more than one successfully sent message: within
\* one run_campaign call, whatever its lead_ids (repeated ids included), a
\* lead whose send succeeded is not sent to again.  Stated of the first
\* run_campaign call of a behaviour, the only source of messages so far.
C30_OneMessagePerLead ==
    (run.pc # "idle" /\ run.used = Len(run.lead_ids)) =>
        \A l \in DOMAIN leads :
            leads[l].email # None => SuccessesTo(leads[l].email) <= 1

(***************************************************************************)
(* get_campaign_stats: the campaign row and the email_logs rows of the     *)
(* campaign, counted by status.                                            *)
(***************************************************************************)
\* len([l for l in logs if l.status == status]) over the rows of the campaign
RowsWithStatus(logs, campaign_id, status) ==
    LET rows == {r \in BagToSet(logs) :
                    r.campaign_id = campaign_id /\ r.status = status}
        RECURSIVE Total(_)
        Total(S) == IF S = {} THEN 0
                    ELSE LET r == CHOOSE x \in S : TRUE
                         IN  CopiesIn(r, logs) + Total(S \ {r})
    IN  Total(rows)

\* get_campaign_stats(campaign_id): {} without the campaign row
get_campaign_stats(table, logs, campaign_id) ==
    IF campaign_id \notin DOMAIN table
    THEN [keys |-> {}]
    ELSE [keys |-> {"status", "total_recipients", "sent", "failed"},
          status |-> table[campaign_id].status,
          total_recipients |-> table[campaign_id].total_recipients,
          sent |-> RowsWithStatus(logs, campaign_id, "sent"),
          failed |-> RowsWithStatus(logs, campaign_id, "failed")]

\* a call of get_campaign_stats between the runs
GetCampaignStats ==
    \E c \in 1..(MaxCampaigns + 1) :
        /\ run.pc # "loop"
        /\ stats' = [pc |-> "done", campaign_id |-> c,
                     result |-> get_campaign_stats(campaigns, email_logs, c)]
        /\ UNCHANGED <<outreachVars, searchVars, renderVars, vld, rnk, fetch,
                       cmd, dscr, walk, enr, gsr>>

NextStats ==
    \/ Next
    \/ GetCampaignStats

SpecStats == InitCampaign /\ [][NextStats]_vars

\* C28: after a campaign was run once to completion, get_campaign_stats
\* agrees with the summary the run returned: sent equals the returned sent
\* and the campaign row's sent_count, failed equals the returned failed.
C28_StatsAgreeWithSummary ==
    (/\ run.pc = "returned"
     /\ run.used = Len(run.lead_ids)
     /\ stats.pc = "done"
     /\ stats.campaign_id = run.campaign_id
     /\ stats.result.keys # {}
     /\ stats.result.status = "completed") =>
        /\ stats.result.sent = run.results.sent
        /\ stats.result.sent = campaigns[run.campaign_id].sent_count
        /\ stats.result.failed = run.results.failed

(***************************************************************************)
(* Claims about the sending branch of the send_campaign command.           *)
(***************************************************************************)
\* C25: with dry-run off, send_campaign checks the mail configuration
\* before the run: with credentials missing it stops with a message,
\* having created no campaign and sent nothing; with credentials present
\* it creates one campaign for the selected lead ids and runs it.
C25_ConfigCheckedBeforeRun ==
    (cmd.pc \in {"done", "raised", "running"} /\ cmd.smtp_user # None) =>
        IF cmd.smtp_user = ""
        THEN /\ cmd.pc = "done"
             /\ cmd.raised = None
             /\ cmd.shown = <<"SMTP not configured">>
             /\ campaigns = <<>>
             /\ outbox = EmptyBag
        ELSE /\ cmd.pc = "running"
             /\ cmd.raised = None
             /\ Len(campaigns) = 1
             /\ run.pc # "idle"
             /\ run.lead_ids = cmd.selected

(***************************************************************************)
(* The directory scrapers: EuropagesScraper.search and                     *)
(* KompassScraper.search, one result page per step.                        *)
(***************************************************************************)
MaxPages == 3
MaxCards == 2

Scrapers == {"europages", "kompass"}

\* what requesting a result page gives: fetch_page's document or none, the
\* elements find_all selected in it, and how many of them parse into a
\* lead record with a company_name
PageOutcomes ==
    {[soup |-> FALSE, cards |-> 0, parsed |-> 0]}
    \cup {o \in [soup : {TRUE}, cards : 0..MaxCards, parsed : 0..MaxCards] :
              o.parsed <= o.cards}

\* EuropagesScraper._scrape_search_page: the number of leads of the page
scrape_search_page(outcome) == IF outcome.soup THEN outcome.parsed ELSE 0

\* the `break` of the loop: Europages on `not page_leads`, Kompass on
\* `not soup` and on `not companies`
page_breaks(scraper, outcome) ==
    IF scraper = "europages"
    THEN scrape_search_page(outcome) = 0
    ELSE ~outcome.soup \/ outcome.cards = 0

InitDirectory ==
    /\ OutreachIdle
    /\ SearchIdle
    /\ RenderIdle
    /\ vld = [pc |-> "idle"]
    /\ rnk = NoCall
    /\ fetch = [pc |-> "idle"]
    /\ cmd = [pc |-> "idle"]
    /\ stats = [pc |-> "idle"]
    /\ dscr = [pc |-> "idle", n |-> 0]
    /\ walk = [pc |-> "idle"]
    /\ enr = [pc |-> "idle"]
    /\ gsr = [pc |-> "idle"]

dirFrame == UNCHANGED <<outreachVars, searchVars, renderVars, vld, rnk, fetch, cmd, stats, walk, enr, gsr>>

\* search(query, location, max_pages), up to the loop
DirectorySearchCall ==
    \E scraper \in Scrapers, max_pages \in 0..MaxPages :
        /\ dscr.pc \in {"idle", "returned"}
        /\ dscr.n < MaxCalls
        /\ dscr' = [pc |-> "loop", n |-> dscr.n + 1, scraper |-> scraper,
                    max_pages |-> max_pages, page |-> 1, requested |-> <<>>,
                    fetched |-> <<>>, yields |-> <<>>, leads |-> 0]
        /\ dirFrame

\* one iteration of `for page in range(1, max_pages + 1)`: the request, the
\* parsing, the break or the leads added
DirectorySearchPage ==
    \E outcome \in PageOutcomes :
        /\ dscr.pc = "loop"
        /\ dscr.page <= dscr.max_pages
        /\ dscr' =
             IF page_breaks(dscr.scraper, outcome)
             THEN [dscr EXCEPT !.pc = "returned",
                               !.requested = Append(@, dscr.page),
                               !.fetched = Append(@, outcome.soup),
                               !.yields = Append(@, outcome.parsed)]
             ELSE [dscr EXCEPT !.requested = Append(@, dscr.page),
                               !.fetched = Append(@, outcome.soup),
                               !.yields = Append(@, outcome.parsed),
                               !.leads = @ + outcome.parsed,
                               !.page = @ + 1]
        /\ dirFrame

\* the range is exhausted: `return leads`
DirectorySearchReturn ==
    /\ dscr.pc = "loop"
    /\ dscr.page > dscr.max_pages
    /\ dscr' = [dscr EXCEPT !.pc = "returned"]
    /\ dirFrame

NextDirectory ==
    \/ DirectorySearchCall
    \/ DirectorySearchPage
    \/ DirectorySearchReturn

SpecDirectory == InitDirectory /\ [][NextDirectory]_vars

\* C21: a directory scraper's search requests pages 1, 2, ... in order and
\* stops at the first page that yields zero parsed lead records or at the
\* maximum page count: no page is requested after a page with zero parsed
\* records, and a page whose fetch returned none ends the search.
C21_StopsAtFirstEmptyPage ==
    dscr.pc \in {"loop", "returned"} =>
        /\ \A j \in DOMAIN dscr.requested : dscr.requested[j] = j
        /\ Len(dscr.requested) <= dscr.max_pages
        /\ \A j \in DOMAIN dscr.requested :
              (dscr.yields[j] = 0 \/ ~dscr.fetched[j]) => j = Len(dscr.requested)
        /\ dscr.pc = "returned" =>
              \/ Len(dscr.requested) = dscr.max_pages
              \/ dscr.yields[Len(dscr.requested)] = 0

(***************************************************************************)
(* EmailFinder.find_email_from_website: the walk over the candidate pages  *)
(* of a website, one request per step.                                     *)
(***************************************************************************)
pages_to_check ==
    <<"", "/contact", "/contact-us", "/kontakt", "/about", "/about-us",
      "/impressum", "/imprint", "/legal">>

\* the websites walked: none, a bare host, a URL with a trailing slash
Websites == {<<>>, <<"acme", ".", "com">>, <<"https://", "acme", ".", "com", "/">>}

\* `if not website.startswith("http"): website = f"https://{website}"`
with_scheme(website) ==
    IF website # <<>> /\ Head(website) \in {"http://", "https://"}
    THEN website
    ELSE <<"https://">> \o website

\* website.rstrip("/")
RECURSIVE rstrip_slash(_)
rstrip_slash(text) ==
    IF text # <<>> /\ text[Len(text)] = "/"
    THEN rstrip_slash(SubSeq(text, 1, Len(text) - 1))
    ELSE text

\* url = website.rstrip("/") + page
page_url(website, page) ==
    rstrip_slash(with_scheme(website)) \o (IF page = "" THEN <<>> ELSE <<page>>)

\* the substrings _extract_emails rejects a match for
rejected_substrings ==
    {<<".png">>, <<".jpg">>, <<".gif">>, <<".svg">>, <<".webp">>,
     <<"example", ".", "com">>, <<"test", ".", "com">>,
     <<"domain", ".", "com">>, <<"e", "mail", ".", "com">>,
     <<"mail", ".", "com">>, <<"yourdomain">>}

\* _extract_emails: the matches of the pattern, lowered, without those
\* that contain a rejected substring
extract_emails(matches) ==
    {LowerAll(e) : e \in {m \in matches :
                             \A x \in rejected_substrings :
                                 ~Contains(LowerAll(m), x)}}

\* what the pattern matches in the text of a page
PageMatches ==
    { <<"INFO", "@", "acme", ".", "com">>,
      <<"sales", "@", "acme", ".", "com">>,
      <<"logo", "@", "2x", ".png">>,
      <<"buyer", "@", "g", "mail", ".", "com">> }

\* what requests.get gives for a page
PageResponses ==
    {[kind |-> "exception", status |-> 0, matches |-> {}],
     [kind |-> "response", status |-> 404, matches |-> {}]}
    \cup {[kind |-> "response", status |-> 200, matches |-> m] :
              m \in SUBSET PageMatches}

\* The walk goes on whatever was found.
walk_never_stops(emails) == FALSE

\* `if emails: break`
walk_stops(emails) == emails # {}

\* list(emails): the elements of the set in some order
Orders(S) ==
    {q \in Lists(S, Cardinality(S)) :
        Len(q) = Cardinality(S) /\ {q[k] : k \in DOMAIN q} = S}

InitWalk ==
    /\ OutreachIdle
    /\ SearchIdle
    /\ RenderIdle
    /\ vld = [pc |-> "idle"]
    /\ rnk = NoCall
    /\ fetch = [pc |-> "idle"]
    /\ cmd = [pc |-> "idle"]
    /\ stats = [pc |-> "idle"]
    /\ dscr = [pc |-> "idle"]
    /\ walk = [pc |-> "idle", n |-> 0]
    /\ enr = [pc |-> "idle"]
    /\ gsr = [pc |-> "idle"]

walkFrame == UNCHANGED <<outreachVars, searchVars, renderVars, vld, rnk, fetch, cmd, stats, dscr, enr, gsr>>

\* find_email_from_website(website), up to the loop; without a website
\* the empty list at once
WalkCall ==
    \E website \in Websites :
        /\ walk.pc \in {"idle", "returned"}
        /\ walk.n < MaxCalls
        /\ walk' = [pc |-> IF website = <<>> THEN "returned" ELSE "loop",
                    n |-> walk.n + 1, website |-> website, k |-> 1,
                    requested |-> <<>>, per_page |-> <<>>, emails |-> {},
                    raised |-> FALSE, not_200 |-> FALSE, result |-> <<>>]
        /\ walkFrame

\* one iteration of `for page in pages_to_check`
WalkPage ==
    \E response \in PageResponses :
        /\ walk.pc = "loop"
        /\ walk.k <= Len(pages_to_check)
        /\ LET url == page_url(walk.website, pages_to_check[walk.k])
               page_emails == IF response.kind = "response" /\ response.status = 200
                              THEN extract_emails(response.matches)
                              ELSE {}
               emails == walk.emails \cup page_emails
               stops == /\ response.kind = "response"
                        /\ response.status = 200
                        /\ walk_stops(emails)
           IN  walk' = [walk EXCEPT
                          !.requested = Append(@, url),
                          !.per_page = Append(@, page_emails),
                          !.emails = emails,
                          !.raised = @ \/ response.kind = "exception",
                          !.not_200 = @ \/ (response.kind = "response"
                                            /\ response.status # 200),
                          !.pc = IF stops THEN "found" ELSE "loop",
                          !.k = IF stops THEN @ ELSE @ + 1]
        /\ walkFrame

\* `return self._prioritize_emails(list(emails))`
WalkReturn ==
    /\ walk.pc = "found" \/ (walk.pc = "loop" /\ walk.k > Len(pages_to_check))
    /\ \E order \in Orders(walk.emails) :
           walk' = [walk EXCEPT !.pc = "returned",
                                !.result = prioritize_emails(order)]
    /\ walkFrame

NextWalk ==
    \/ WalkCall
    \/ WalkPage
    \/ WalkReturn

SpecWalk == InitWalk /\ [][NextWalk]_vars

\* C22: find_email_from_website requests the candidate pages in the fixed
\* order, requests no page after the first page on which an email survived
\* the filter, is not stopped by a page that fails or is not status 200,
\* and returns emails that all come from that one page.
C22_WalkStopsAtFirstHit ==
    (walk.pc # "idle" /\ walk.website # <<>>) =>
        /\ Len(walk.requested) <= Len(pages_to_check)
        /\ \A j \in DOMAIN walk.requested :
              /\ walk.requested[j] = page_url(walk.website, pages_to_check[j])
              /\ walk.per_page[j] # {} => j = Len(walk.requested)
        /\ walk.pc = "returned" =>
              /\ \/ Len(walk.requested) = Len(pages_to_check)
                 \/ walk.per_page[Len(walk.requested)] # {}
              /\ {walk.result[k] : k \in DOMAIN walk.result}
                    = walk.per_page[Len(walk.requested)]
              /\ Len(walk.result) = Cardinality(walk.per_page[Len(walk.requested)])

\* a walk went past a page that raised and a page that was not status 200
\* and returned the emails of a later page
C22_Witness ==
    /\ walk.pc = "returned"
    /\ walk.raised
    /\ walk.not_200
    /\ Len(walk.requested) \in 3..(Len(pages_to_check) - 1)
    /\ Len(walk.result) = 2

(***************************************************************************)
(* EmailEnricher.enrich_lead: the emails found on the website, or the      *)
(* generated addresses validated one per step.                             *)
(***************************************************************************)
\* generated[:5]
CheckedFirst == 5

\* the atoms a URL's path starts with
PathAtoms == {"/"} \cup {pages_to_check[k] : k \in 2..Len(pages_to_check)}

\* urlparse(website).netloc: what follows the scheme, up to the path
RECURSIVE netloc(_)
netloc(rest) ==
    IF rest = <<>> \/ Head(rest) \in PathAtoms THEN <<>>
    ELSE <<Head(rest)>> \o netloc(Tail(rest))

\* .replace("www.", "")
RECURSIVE without_www(_)
without_www(text) ==
    IF text = <<>> THEN <<>>
    ELSE IF Head(text) = "www." THEN without_www(Tail(text))
    ELSE <<Head(text)>> \o without_www(Tail(text))

\* EmailFinder.get_domain_from_website
get_domain_from_website(website) ==
    IF website = <<>> THEN <<>>
    ELSE without_www(netloc(Tail(with_scheme(website))))

generic_patterns ==
    <<"info", "contact", "sales", "export", "import", "purchasing", "orders",
      "hello">>

\* EmailFinder.generate_email_patterns(domain, first_name, last_name); a
\* name is a sequence of characters, None when not given
generate_email_patterns(domain, first_name, last_name) ==
    LET generic == [k \in DOMAIN generic_patterns |->
                       <<generic_patterns[k], "@">> \o domain]
        first_lower == LowerAll(first_name)
        last_lower == LowerAll(last_name)
        f == <<first_lower[1]>>
        l == <<last_lower[1]>>
        personal == <<first_lower \o <<"@">> \o domain,
                      last_lower \o <<"@">> \o domain,
                      first_lower \o <<".">> \o last_lower \o <<"@">> \o domain,
                      first_lower \o <<"_">> \o last_lower \o <<"@">> \o domain,
                      f \o last_lower \o <<"@">> \o domain,
                      first_lower \o l \o <<"@">> \o domain,
                      first_lower \o last_lower \o <<"@">> \o domain>>
    IN  IF first_name \notin {None, <<>>} /\ last_name \notin {None, <<>>}
        THEN generic \o personal
        ELSE generic

\* is_valid of EmailValidator.validate(email), for each way the two DNS
\* lookups can end
ValidateOutcomes(email) ==
    {after_format(v) = "mx" /\ check_mx_record(mx) :
        v \in UNION {LibraryVerdicts(email, lib) : lib \in DnsAnswers},
        mx \in DnsAnswers}

\* Every generated address is validated.
checked_all(generated) == generated

\* generated[:5]
checked(generated) ==
    SubSeq(generated, 1, IF Len(generated) < CheckedFirst THEN Len(generated)
                         ELSE CheckedFirst)

\* `if not website: return enriched` precedes the search of the website
website_found(website, found) == website = <<>> => found = <<>>

\* the leads enriched: the website, and the email the lead has already
\* (<<>>: the lead has none)
EnrichLeads ==
    [website : {<<>>, <<"https://">>, <<"acme", ".", "com">>,
                <<"https://", "www.", "acme", ".", "com", "/contact">>},
     email : {<<>>, <<"old", "@", "acme", ".", "com">>}]

\* lead.copy(): the keys of the mapping and their values
Copy(lead) ==
    [keys |-> IF lead.email = <<>> THEN {"website"} ELSE {"website", "email"},
     email |-> lead.email, email_verified |-> FALSE, email_type |-> None,
     all_emails |-> <<>>]

\* what find_email_from_website returned
FoundEmails ==
    {<<>>, <<<<"info", "@", "acme", ".", "com">>>>,
     <<<<"sales", "@", "acme", ".", "com">>, <<"info", "@", "acme", ".", "com">>>>}

InitEnrich ==
    /\ OutreachIdle
    /\ SearchIdle
    /\ RenderIdle
    /\ vld = [pc |-> "idle"]
    /\ rnk = NoCall
    /\ fetch = [pc |-> "idle"]
    /\ cmd = [pc |-> "idle"]
    /\ stats = [pc |-> "idle"]
    /\ dscr = [pc |-> "idle"]
    /\ walk = [pc |-> "idle"]
    /\ enr = [pc |-> "idle"]
    /\ gsr = [pc |-> "idle"]

enrFrame == UNCHANGED <<outreachVars, searchVars, renderVars, vld, rnk, fetch, cmd, stats, dscr, walk, gsr>>

\* enrich_lead(lead) up to the validation of the generated addresses:
\* without a website the copy of the lead; with emails found, the first of
\* them validated and stored.  passes[j]: what validate answers for the
\* j-th generated address when it is asked
EnrichCall ==
    \E lead \in EnrichLeads, found \in FoundEmails :
        /\ enr.pc = "idle"
        /\ website_found(lead.website, found)
        /\ LET domain == get_domain_from_website(lead.website)
               generated == IF found = <<>> /\ domain # <<>>
                            THEN generate_email_patterns(domain, None, None)
                            ELSE <<>>
               copy == Copy(lead)
           IN  \E is_valid \in (IF found = <<>> THEN {FALSE}
                                ELSE ValidateOutcomes(found[1])),
                  passes \in [DOMAIN generated -> BOOLEAN] :
                   /\ \A j \in DOMAIN generated :
                          passes[j] \in ValidateOutcomes(generated[j])
                   /\ enr' = [pc |-> IF generated = <<>> THEN "returned"
                                     ELSE "validate",
                              lead |-> lead, found |-> found,
                              domain |-> domain, generated |-> generated,
                              passes |-> passes, k |-> 1, validated |-> <<>>,
                              enriched |->
                                  IF found # <<>>
                                  THEN [copy EXCEPT
                                          !.keys = @ \cup {"email", "email_verified",
                                                           "all_emails"},
                                          !.email = found[1],
                                          !.email_verified = is_valid,
                                          !.all_emails = found]
                                  ELSE copy]
        /\ enrFrame

\* one iteration of `for email in generated[:5]`
EnrichValidate ==
    /\ enr.pc = "validate"
    /\ enr.k <= Len(checked(enr.generated))
    /\ LET email == checked(enr.generated)[enr.k]
           is_valid == enr.passes[enr.k]
       IN  enr' = IF is_valid
                  THEN [enr EXCEPT !.validated = Append(@, email),
                                   !.enriched.keys = @ \cup {"email", "email_verified",
                                                             "email_type"},
                                   !.enriched.email = email,
                                   !.enriched.email_verified = FALSE,
                                   !.enriched.email_type = "generated",
                                   !.pc = "returned"]
                  ELSE [enr EXCEPT !.validated = Append(@, email),
                                   !.k = @ + 1]
    /\ enrFrame

\* the addresses to check are exhausted: `return enriched`
EnrichReturn ==
    /\ enr.pc = "validate"
    /\ enr.k > Len(checked(enr.generated))
    /\ enr' = [enr EXCEPT !.pc = "returned"]
    /\ enrFrame

NextEnrich ==
    \/ EnrichCall
    \/ EnrichValidate
    \/ EnrichReturn

SpecEnrich == InitEnrich /\ [][NextEnrich]_vars

\* the generated addresses among the first n that pass validation
PassingAmong(n) == {j \in DOMAIN enr.generated : j <= n /\ enr.passes[j]}

\* enrich_lead returned with the first passing address among the first n
\* generated ones, marked generated and unverified, after validating the
\* addresses in generated order up to it; or with no address added when
\* none of them passes
AcceptsFirstPassing(n) ==
    (enr.pc = "returned" /\ enr.generated # <<>>) =>
        IF PassingAmong(n) # {}
        THEN LET j == CHOOSE m \in PassingAmong(n) :
                          \A o \in PassingAmong(n) : m <= o
             IN  /\ {"email", "email_verified", "email_type"}
                        \subseteq enr.enriched.keys
                 /\ enr.enriched.email = enr.generated[j]
                 /\ enr.enriched.email_type = "generated"
                 /\ enr.enriched.email_verified = FALSE
                 /\ enr.validated = SubSeq(enr.generated, 1, j)
        ELSE enr.enriched = Copy(enr.lead)

\* C23 as stated: when website discovery yields no email, the generated
\* addresses are validated in generated order and the first one that
\* validates is accepted: if any generated address passes validation the
\* lead gets the first passing one (generated, unverified), else no email.
C23_FirstPassingOfAll == AcceptsFirstPassing(Len(generic_patterns))

\* C23: when website discovery yields no email, the first five generated
\* addresses are validated in generated order and the first of them that
\* validates is accepted (generated, unverified); if none of the five
\* passes, the lead gets no email.
C23_FirstPassingOfChecked == AcceptsFirstPassing(CheckedFirst)

\* the third generated address was accepted after two that did not pass
C23_Witness ==
    /\ enr.pc = "returned"
    /\ enr.found = <<>>
    /\ Len(enr.validated) = 3
    /\ enr.enriched.email_type = "generated"

(***************************************************************************)
(* GoogleScraper.search: the DuckDuckGo page, then the Google page when    *)
(* the first gave no lead.                                                 *)
(***************************************************************************)
MaxResults == 2
MaxOnPage == 2

skip_domains ==
    {<<"facebook", ".", "com">>, <<"twitter", ".", "com">>,
     <<"linkedin", ".", "com">>, <<"instagram", ".", "com">>,
     <<"youtube", ".", "com">>, <<"pinterest", ".", "com">>,
     <<"tiktok", ".", "com">>, <<"wikipedia", ".", "org">>,
     <<"amazon", ".", "com">>, <<"ebay", ".", "com">>,
     <<"alibaba", ".", "com">>, <<"google", ".", "com">>,
     <<"bing", ".", "com">>, <<"yahoo", ".", "com">>, <<"yelp", ".", "com">>,
     <<"yellowpages", ".", "com">>, <<"tripadvisor", ".", "com">>,
     <<"reddit", ".", "com">>, <<"quora", ".", "com">>,
     <<"medium", ".", "com">>, <<"gov", ".">>, <<".", "gov">>, <<".", "edu">>}

\* GoogleScraper._is_skip_domain
is_skip_domain(domain) ==
    \E skip \in skip_domains : Contains(LowerAll(domain), skip)

\* link.startswith("http")
starts_with_http(link) == link # <<>> /\ Head(link) \in {"http://", "https://"}

\* urlparse(link).netloc.replace("www.", ""): empty for a link without host
link_domain(link) ==
    IF starts_with_http(link) THEN without_www(netloc(Tail(link))) ELSE <<>>

\* the result elements of a page: whether the title element (and for Google
\* the link element) is there, and the link's href
ResultElements ==
    {[title |-> TRUE, link |-> <<"https://", "acme", ".", "com", "/">>],
     [title |-> TRUE, link |-> <<"https://", "www.", "facebook", ".", "com", "/about">>],
     [title |-> TRUE, link |-> <<"https://", "beta", ".", "gov", ".", "tr">>],
     [title |-> TRUE, link |-> <<"/about">>],
     [title |-> FALSE, link |-> <<"https://", "acme", ".", "com", "/">>]}

\* what fetch_page gives: none, or the result elements of the page in order
ResultPages ==
    {[soup |-> FALSE, results |-> <<>>]}
    \cup {[soup |-> TRUE, results |-> q] : q \in Lists(ResultElements, MaxOnPage)}

\* the lead of a result element
ResultLead(r, source) ==
    [domain |-> link_domain(r.link),
     website |-> IF link_domain(r.link) # <<>>
                 THEN <<"https://">> \o link_domain(r.link) ELSE r.link,
     source_url |-> r.link, source |-> source]

\* the loop of _search_duckduckgo over results[:max_results]
RECURSIVE duckduckgo_leads(_)
duckduckgo_leads(results) ==
    IF results = <<>> THEN <<>>
    ELSE LET r == Head(results)
         IN  (IF r.title /\ ~is_skip_domain(link_domain(r.link))
              THEN <<ResultLead(r, "duckduckgo")>> ELSE <<>>)
             \o duckduckgo_leads(Tail(results))

\* GoogleScraper._search_duckduckgo(query, max_results)
search_duckduckgo(page, max_results) ==
    IF ~page.soup THEN <<>>
    ELSE duckduckgo_leads(SubSeq(page.results, 1,
                                 IF Len(page.results) < max_results
                                 THEN Len(page.results) ELSE max_results))

\* the loop of _search_google over every div of class g
RECURSIVE google_leads(_)
google_leads(results) ==
    IF results = <<>> THEN <<>>
    ELSE LET r == Head(results)
         IN  (IF /\ r.title
                 /\ starts_with_http(r.link)
                 /\ ~is_skip_domain(link_domain(r.link))
              THEN <<ResultLead(r, "google")>> ELSE <<>>)
             \o google_leads(Tail(results))

\* GoogleScraper._search_google(query, max_results): max_results goes into
\* the URL only
search_google(page, max_results) ==
    IF ~page.soup THEN <<>> ELSE google_leads(page.results)

InitGoogle ==
    /\ OutreachIdle
    /\ SearchIdle
    /\ RenderIdle
    /\ vld = [pc |-> "idle"]
    /\ rnk = NoCall
    /\ fetch = [pc |-> "idle"]
    /\ cmd = [pc |-> "idle"]
    /\ stats = [pc |-> "idle"]
    /\ dscr = [pc |-> "idle"]
    /\ walk = [pc |-> "idle"]
    /\ enr = [pc |-> "idle"]
    /\ gsr = [pc |-> "idle"]

gsrFrame == UNCHANGED <<outreachVars, searchVars, renderVars, vld, rnk, fetch, cmd, stats, dscr, walk, enr>>

\* search(query, location, max_results) up to `if not leads`
GoogleSearchCall ==
    \E max_results \in 1..MaxResults, page \in ResultPages :
        /\ gsr.pc = "idle"
        /\ LET found == search_duckduckgo(page, max_results)
           IN  gsr' = [pc |-> IF found = <<>> THEN "fallback" ELSE "returned",
                       max_results |-> max_results,
                       pages |-> <<page>>, duckduckgo |-> found,
                       fallback |-> FALSE, leads |-> found]
        /\ gsrFrame

\* `leads = self._search_google(search_query, max_results)` and the return
GoogleFallback ==
    \E page \in ResultPages :
        /\ gsr.pc = "fallback"
        /\ gsr' = [gsr EXCEPT !.pc = "returned", !.fallback = TRUE,
                              !.pages = Append(@, page),
                              !.leads = search_google(page, gsr.max_results)]
        /\ gsrFrame

NextGoogle ==
    \/ GoogleSearchCall
    \/ GoogleFallback

SpecGoogle == InitGoogle /\ [][NextGoogle]_vars

\* C26: GoogleScraper.search returns at most max_results leads, from the
\* DuckDuckGo path or from the Google fallback; the fallback is tried only
\* when the DuckDuckGo path returned no lead; no returned lead has a
\* domain matching the denylist.
C26_AtMostMaxResults ==
    gsr.pc = "returned" =>
        /\ Len(gsr.leads) <= gsr.max_results
        /\ gsr.fallback => gsr.duckduckgo = <<>>
        /\ \A k \in DOMAIN gsr.leads : ~is_skip_domain(gsr.leads[k].domain)

====
